---- MODULE Spec2Model ----
(***************************************************************************)
(* Model of the go-snipeit client: NewClient, Client.AddOptions,           *)
(* Client.NewRequest, Client.Do, and the List / Get accessors built on     *)
(* them.                                                                   *)
(*                                                                         *)
(* Strings are sequences of one-character strings.  Caller-supplied URLs   *)
(* are made of lower-case letters and  .  :  /  ?  %  : a % is never       *)
(* followed by two hexadecimal digits, so every % in a path or host is an  *)
(* invalid escape, and no character of the alphabet is escaped by net/url  *)
(* in a path (EscapedPath() = Path and RawPath = "" for every URL of the   *)
(* model).                                                                 *)
(*                                                                         *)
(* An operator that needs the result of a call more than once takes it as  *)
(* a parameter of a second operator, named after the step of the source it *)
(* continues, so that every call is written once.                          *)
(***************************************************************************)
EXTENDS Integers, Sequences, FiniteSets, TLC

\* ------------------------------------------------------------------ bounds
\* longest path appended to a base-URL prefix given to NewClient
MaxBaseLen == 2
\* longest urlStr given to NewRequest / longest s given to AddOptions
MaxPathLen == 3

\* ----------------------------------------------------------------- strings
Letters == {"a", "b", "c", "d", "e", "f", "g", "h", "i", "j", "k", "l", "m", "n", "o", "p", "q", "r", "s", "t", "u", "v", "w", "x", "y", "z"}

SeqsUpTo(A, n) == UNION {[1..k -> A] : k \in 0..n}

HasPrefix(s, p) == Len(s) >= Len(p) /\ SubSeq(s, 1, Len(p)) = p

HasSuffix(s, p) == Len(s) >= Len(p) /\ SubSeq(s, Len(s) - Len(p) + 1, Len(s)) = p

\* strings.TrimPrefix: removes ONE occurrence of the prefix, if present
TrimPrefix(s, p) == IF HasPrefix(s, p) THEN SubSeq(s, Len(p) + 1, Len(s)) ELSE s

Contains(s, c) == \E i \in 1..Len(s) : s[i] = c

\* index of the first / last occurrence of character c in s, 0 when absent
IndexOf(s, c) == IF Contains(s, c) THEN CHOOSE i \in 1..Len(s) : s[i] = c /\ \A j \in 1..(i - 1) : s[j] # c ELSE 0

LastIndexOf(s, c) == IF Contains(s, c) THEN CHOOSE i \in 1..Len(s) : s[i] = c /\ \A j \in (i + 1)..Len(s) : s[j] # c ELSE 0

Count(s, c) == Cardinality({i \in 1..Len(s) : s[i] = c})

\* strings.Cut(s, c): the text before and after the first c
CutBefore(s, c) == IF Contains(s, c) THEN SubSeq(s, 1, IndexOf(s, c) - 1) ELSE s

CutAfter(s, c) == IF Contains(s, c) THEN SubSeq(s, IndexOf(s, c) + 1, Len(s)) ELSE <<>>

DigitChars == <<"0", "1", "2", "3", "4", "5", "6", "7", "8", "9">>

IsDigit(c) == \E i \in 1..10 : DigitChars[i] = c

AllDigits(s) == \A i \in 1..Len(s) : IsDigit(s[i])

\* the number a string of digits stands for
RECURSIVE Atoi(_)
Atoi(s) == IF s = <<>> THEN 0 ELSE 10 * Atoi(SubSeq(s, 1, Len(s) - 1)) + ((CHOOSE i \in 1..10 : DigitChars[i] = s[Len(s)]) - 1)

\* the digits of s from position i up to the first character that is none
RECURSIVE DigitRun(_, _)
DigitRun(s, i) == IF i > Len(s) \/ ~IsDigit(s[i]) THEN <<>> ELSE <<s[i]>> \o DigitRun(s, i + 1)

\* ------------------------------------------------------------------ net/url
\* a nil pointer / nil interface value
Nil == [isNil |-> TRUE]

NoErr == "nil"

EmptyURL == [Scheme |-> <<>>, Opaque |-> <<>>, Host |-> <<>>, Path |-> <<>>, RawQuery |-> <<>>, ForceQuery |-> FALSE, OmitHost |-> FALSE]

\* net/url getScheme: position of the ':' ending the scheme, 0 when the
\* string has no scheme, -1 for "missing protocol scheme"
RECURSIVE SchemeScan(_, _)
SchemeScan(raw, i) ==
  IF i > Len(raw) THEN 0
  ELSE IF raw[i] \in Letters THEN SchemeScan(raw, i + 1)
  ELSE IF raw[i] = "." THEN (IF i = 1 THEN 0 ELSE SchemeScan(raw, i + 1))
  ELSE IF raw[i] = ":" THEN (IF i = 1 THEN -1 ELSE i)
  ELSE 0

\* net/url parseHost: a ':' must introduce an (optional, numeric) port, and
\* the alphabet has no digits; a '%' is an invalid escape (in a host only
\* non-ASCII bytes may be %-encoded), and so is a raw space
HostErr(host) ==
  IF Contains(host, ":") /\ LastIndexOf(host, ":") # Len(host) THEN "invalid port"
  ELSE IF Contains(host, "%") THEN "invalid URL escape"
  ELSE IF Contains(host, " ") THEN "invalid character in host name"
  ELSE NoErr

\* net/url (*URL).setPath: the last step of parse
SetPath(u, path) ==
  IF Contains(path, "%") THEN [err |-> "invalid URL escape", u |-> Nil]
  ELSE [err |-> NoErr, u |-> [u EXCEPT !.Path = path]]

\* net/url parseAuthority, for the authority host of rest = host \o path
ParseHost(u, host, rest) ==
  IF HostErr(host) # NoErr THEN [err |-> HostErr(host), u |-> Nil]
  ELSE SetPath([u EXCEPT !.Host = host], SubSeq(rest, Len(host) + 1, Len(rest)))

\* net/url parse, after scheme and query are cut off: u holds them, rest is
\* what is left of the raw URL
ParseHier(u, rest) ==
  LET slash == HasPrefix(rest, <<"/">>)
      auth == HasPrefix(rest, <<"/", "/">>) /\ (u.Scheme # <<>> \/ ~HasPrefix(rest, <<"/", "/", "/">>))
  IN  IF ~slash /\ u.Scheme # <<>> THEN [err |-> NoErr, u |-> [u EXCEPT !.Opaque = rest]]
      ELSE IF ~slash /\ Contains(CutBefore(rest, "/"), ":") THEN [err |-> "first path segment in URL cannot contain colon", u |-> Nil]
      ELSE IF auth THEN ParseHost(u, CutBefore(SubSeq(rest, 3, Len(rest)), "/"), SubSeq(rest, 3, Len(rest)))
      ELSE SetPath([u EXCEPT !.OmitHost = (u.Scheme # <<>> /\ slash)], rest)

\* net/url parse, after the scheme is cut off: a trailing lone '?' sets
\* ForceQuery, otherwise the query is what follows the first '?'
ParseQuery(scheme, rest) ==
  IF HasSuffix(rest, <<"?">>) /\ Count(rest, "?") = 1
  THEN ParseHier([EmptyURL EXCEPT !.Scheme = scheme, !.ForceQuery = TRUE], SubSeq(rest, 1, Len(rest) - 1))
  ELSE ParseHier([EmptyURL EXCEPT !.Scheme = scheme, !.RawQuery = CutAfter(rest, "?")], CutBefore(rest, "?"))

\* net/url parse, for the result sc of getScheme
ParseScheme(raw, sc) ==
  IF sc = -1 THEN [err |-> "missing protocol scheme", u |-> Nil]
  ELSE IF sc > 0 THEN ParseQuery(SubSeq(raw, 1, sc - 1), SubSeq(raw, sc + 1, Len(raw)))
  ELSE ParseQuery(<<>>, raw)

\* url.Parse(rawURL): [err, u]
ParseURL(raw) == ParseScheme(raw, SchemeScan(raw, 1))

\* net/url escape(host, encodeHost): of the characters of the model only the
\* space is escaped in a host
RECURSIVE HostEscape(_)
HostEscape(h) == IF h = <<>> THEN <<>> ELSE (IF h[1] = " " THEN <<"%", "2", "0">> ELSE <<h[1]>>) \o HostEscape(Tail(h))

\* (*URL).String()
URLString(u) ==
  LET sch == IF u.Scheme # <<>> THEN u.Scheme \o <<":">> ELSE <<>>
      hostPart == IF u.Scheme # <<>> \/ u.Host # <<>>
                  THEN (IF u.OmitHost /\ u.Host = <<>> THEN <<>>
                        ELSE (IF u.Host # <<>> \/ u.Path # <<>> THEN <<"/", "/">> ELSE <<>>) \o HostEscape(u.Host))
                  ELSE <<>>
      sep == IF u.Path # <<>> /\ u.Path[1] # "/" /\ u.Host # <<>> THEN <<"/">> ELSE <<>>
      dot == IF sch \o hostPart \o sep = <<>> /\ Contains(CutBefore(u.Path, "/"), ":") THEN <<".", "/">> ELSE <<>>
      body == IF u.Opaque # <<>> THEN u.Opaque ELSE hostPart \o sep \o dot \o u.Path
      qry == IF u.ForceQuery \/ u.RawQuery # <<>> THEN <<"?">> \o u.RawQuery ELSE <<>>
  IN  sch \o body \o qry

\* strings.Split(s, "/")
RECURSIVE SplitSlash(_)
SplitSlash(s) == IF ~Contains(s, "/") THEN <<s>> ELSE <<CutBefore(s, "/")>> \o SplitSlash(CutAfter(s, "/"))

\* one iteration of the loop of net/url resolvePath: st = [dst, first]
ResolveStep(st, elem) ==
  IF elem = <<".">> THEN [st EXCEPT !.first = FALSE]
  ELSE IF elem = <<".", ".">> THEN
    LET str == SubSeq(st.dst, 2, Len(st.dst))
        index == LastIndexOf(str, "/")
    IN  IF index = 0 THEN [dst |-> <<"/">>, first |-> TRUE]
        ELSE [dst |-> <<"/">> \o SubSeq(str, 1, index - 1), first |-> st.first]
  ELSE [dst |-> (IF st.first THEN st.dst ELSE st.dst \o <<"/">>) \o elem, first |-> FALSE]

RECURSIVE ResolveLoop(_, _, _)
ResolveLoop(st, elems, i) == IF i > Len(elems) THEN st ELSE ResolveLoop(ResolveStep(st, elems[i]), elems, i + 1)

\* the end of resolvePath: the joined path r without its doubled first '/'
ResolveTrim(r) == IF Len(r) > 1 /\ r[2] = "/" THEN SubSeq(r, 2, Len(r)) ELSE r

\* resolvePath over the elements of the full path: a last element "." or
\* ".." leaves a trailing '/'
ResolveElems(elems) ==
  ResolveTrim(ResolveLoop([dst |-> <<"/">>, first |-> TRUE], elems, 1).dst
              \o (IF elems[Len(elems)] \in {<<".">>, <<".", ".">>} THEN <<"/">> ELSE <<>>))

\* resolvePath for the full path (base directory and reference joined)
ResolveFull(full) == IF full = <<>> THEN <<>> ELSE ResolveElems(SplitSlash(full))

\* net/url resolvePath(base, ref)
ResolvePath(base, ref) ==
  ResolveFull(IF ref = <<>> THEN base
              ELSE IF ref[1] # "/" THEN SubSeq(base, 1, LastIndexOf(base, "/")) \o ref
              ELSE ref)

\* (*URL).ResolveReference(ref)
ResolveReference(u, ref) ==
  LET url == [ref EXCEPT !.Scheme = IF ref.Scheme = <<>> THEN u.Scheme ELSE ref.Scheme]
      inherit == ref.Path = <<>> /\ ~ref.ForceQuery /\ ref.RawQuery = <<>>
      url2 == IF inherit THEN [url EXCEPT !.RawQuery = u.RawQuery] ELSE url
  IN  IF ref.Scheme # <<>> \/ ref.Host # <<>> THEN [url EXCEPT !.Path = ResolvePath(ref.Path, <<>>)]
      ELSE IF ref.Opaque # <<>> THEN [url EXCEPT !.Host = <<>>, !.Path = <<>>]
      ELSE IF ref.Path = <<>> /\ u.Opaque # <<>> THEN [url2 EXCEPT !.Opaque = u.Opaque, !.Host = <<>>, !.Path = <<>>]
      ELSE [url2 EXCEPT !.Host = u.Host, !.Path = ResolvePath(u.Path, ref.Path)]

\* (*URL).Parse(ref): parse ref, then resolve it against u; r is what
\* url.Parse gave for ref
ResolveParsed(u, r) == IF r.err # NoErr THEN r ELSE [err |-> NoErr, u |-> ResolveReference(u, r.u)]

URLParseRef(u, ref) == ResolveParsed(u, ParseURL(ref))

\* ------------------------------------------------------------------ client
Bearer == <<"B", "e", "a", "r", "e", "r", " ">>

DefaultClient == "http.DefaultClient"

\* NewClient, for the result p of url.Parse(baseURL)
NewClientParsed(token, p) ==
  IF p.err # NoErr THEN [c |-> Nil, err |-> p.err]
  ELSE [c |-> [client |-> DefaultClient,
               token |-> Bearer \o token,
               BaseURL |-> IF ~HasSuffix(p.u.Path, <<"/">>) THEN [p.u EXCEPT !.Path = @ \o <<"/">>] ELSE p.u],
        err |-> NoErr]

\* NewClient without the check of the token
NewClientAnyToken(baseURL, token) ==
  IF baseURL = <<>> THEN [c |-> Nil, err |-> "a baseURL must be provided"]
  ELSE NewClientParsed(token, ParseURL(baseURL))

\* NewClient appending the separator without looking at the path
NewClientAlwaysAppends(baseURL, token) ==
  LET Appended(p) ==
        IF p.err # NoErr THEN [c |-> Nil, err |-> p.err]
        ELSE [c |-> [client |-> DefaultClient, token |-> Bearer \o token, BaseURL |-> [p.u EXCEPT !.Path = @ \o <<"/">>]], err |-> NoErr]
  IN  IF baseURL = <<>> THEN [c |-> Nil, err |-> "a baseURL must be provided"]
      ELSE IF token = <<>> THEN [c |-> Nil, err |-> "a token must be provided"]
      ELSE Appended(ParseURL(baseURL))

\* NewClient(baseURL, token): [c, err]
NewClient(baseURL, token) ==
  IF baseURL = <<>> THEN [c |-> Nil, err |-> "a baseURL must be provided"]
  ELSE IF token = <<>> THEN [c |-> Nil, err |-> "a token must be provided"]
  ELSE NewClientParsed(token, ParseURL(baseURL))

\* methods: "" stands for GET in net/http; "G T" is not a valid method token
Methods == {"GET", "", "G T"}

ValidMethod(m) == m # "G T"

\* request bodies: none, a value encoding/json can encode, one it cannot
NoBody == "nil"

ReqBodies == {NoBody, "value", "unsupported"}

\* net/http removeEmptyPort
RemoveEmptyPort(host) == IF HasSuffix(host, <<":">>) THEN SubSeq(host, 1, Len(host) - 1) ELSE host

\* NewRequest setting Content-Type only on a request that has a body
HTTPNewRequestBodyContentType(c, method, body, p) ==
  IF p.err # NoErr THEN [req |-> Nil, err |-> p.err]
  ELSE [req |-> [Method |-> IF method = "" THEN "GET" ELSE method,
                 URL |-> [p.u EXCEPT !.Host = RemoveEmptyPort(@)],
                 Header |-> [Accept |-> "application/json", ContentType |-> IF body = NoBody THEN "" ELSE "application/json", Authorization |-> c.token],
                 Body |-> IF body = NoBody THEN Nil ELSE [json |-> body, escapeHTML |-> FALSE]],
        err |-> NoErr]

\* http.NewRequest(method, u.String(), buf) and the three headers, for the
\* result p of parsing u.String() again
HTTPNewRequest(c, method, body, p) ==
  IF p.err # NoErr THEN [req |-> Nil, err |-> p.err]
  ELSE [req |-> [Method |-> IF method = "" THEN "GET" ELSE method,
                 URL |-> [p.u EXCEPT !.Host = RemoveEmptyPort(@)],
                 Header |-> [Accept |-> "application/json", ContentType |-> "application/json", Authorization |-> c.token],
                 Body |-> IF body = NoBody THEN Nil ELSE [json |-> body, escapeHTML |-> FALSE]],
        err |-> NoErr]

\* NewRequest, for the result r of c.BaseURL.Parse
NewRequestResolved(c, method, body, r) ==
  IF r.err # NoErr THEN [req |-> Nil, err |-> r.err]
  ELSE IF body = "unsupported" THEN [req |-> Nil, err |-> "json: unsupported type"]
  ELSE IF ~ValidMethod(method) THEN [req |-> Nil, err |-> "net/http: invalid method"]
  ELSE HTTPNewRequest(c, method, body, ParseURL(URLString(r.u)))

\* NewRequest resolving urlStr as given, leading '/' included
NewRequestNoTrim(c, method, urlStr, body) == NewRequestResolved(c, method, body, URLParseRef(c.BaseURL, urlStr))

\* (*Client).NewRequest(method, urlStr, body): [req, err]
NewRequest(c, method, urlStr, body) == NewRequestResolved(c, method, body, URLParseRef(c.BaseURL, TrimPrefix(urlStr, <<"/">>)))

\* ------------------------------------------------------------ time.Parse
\* the zero time.Time (January 1, year 1, 00:00:00 UTC)
ZeroTime == [year |-> 1, month |-> 1, day |-> 1, hour |-> 0, min |-> 0, sec |-> 0, nsec |-> 0]

IsLeap(y) == y % 4 = 0 /\ (y % 100 # 0 \/ y % 400 = 0)

DaysIn(m, y) == IF m = 2 THEN (IF IsLeap(y) THEN 29 ELSE 28) ELSE IF m \in {4, 6, 9, 11} THEN 30 ELSE 31

\* time.Parse("2006-01-02 15:04:05", s): [err, value, t].  The year takes
\* four digits, month, day, minute and second two digits each, the hour one
\* or two digits (the layout element 15 is not of fixed width); a '.' and
\* digits after the seconds are read as a fractional second although the
\* layout has none (fractions of at most nine digits); anything left over
\* is an error.  The error is a *time.ParseError, whose text quotes value.
ParseTime(s) ==
  LET o == IF Len(s) >= 13 /\ IsDigit(s[13]) THEN 13 ELSE 12
      shape == /\ Len(s) >= o + 6
               /\ AllDigits(SubSeq(s, 1, 4)) /\ s[5] = "-"
               /\ AllDigits(SubSeq(s, 6, 7)) /\ s[8] = "-"
               /\ AllDigits(SubSeq(s, 9, 10)) /\ s[11] = " "
               /\ AllDigits(SubSeq(s, 12, o)) /\ s[o + 1] = ":"
               /\ AllDigits(SubSeq(s, o + 2, o + 3)) /\ s[o + 4] = ":"
               /\ AllDigits(SubSeq(s, o + 5, o + 6))
      frac == IF Len(s) >= o + 8 /\ s[o + 7] = "." /\ IsDigit(s[o + 8]) THEN DigitRun(s, o + 8) ELSE <<>>
      used == o + 6 + (IF frac = <<>> THEN 0 ELSE 1 + Len(frac))
      t == [year |-> Atoi(SubSeq(s, 1, 4)), month |-> Atoi(SubSeq(s, 6, 7)), day |-> Atoi(SubSeq(s, 9, 10)),
            hour |-> Atoi(SubSeq(s, 12, o)), min |-> Atoi(SubSeq(s, o + 2, o + 3)), sec |-> Atoi(SubSeq(s, o + 5, o + 6)),
            nsec |-> Atoi(frac) * 10 ^ (9 - Len(frac))]
      range == /\ t.month \in 1..12
               /\ t.day \in 1..DaysIn(t.month, t.year)
               /\ t.hour \in 0..23 /\ t.min \in 0..59 /\ t.sec \in 0..59
  IN  IF shape /\ used = Len(s) /\ range THEN [err |-> NoErr, value |-> s, t |-> t]
      ELSE [err |-> "*time.ParseError", value |-> s, t |-> ZeroTime]

\* ---------------------------------------------------------- encoding/json
\* JSON values: [t |-> "null"], [t |-> "num", v], [t |-> "str", v],
\* [t |-> "arr", e |-> sequence of values], [t |-> "obj", f |-> sequence of
\* <<key, value>> members in document order].
JNull == [t |-> "null"]

JNum(n) == [t |-> "num", v |-> n]

JStr(x) == [t |-> "str", v |-> x]

JArr(e) == [t |-> "arr", e |-> e]

JObj(f) == [t |-> "obj", f |-> f]

TypeErr == "json: cannot unmarshal value into Go value"

\* the decoder's state while it fills a value: the value so far, the first
\* saved (non-fatal) error, and the error that aborted the decode
DecSt(val) == [val |-> val, saved |-> NoErr, abort |-> NoErr]

Save(st, e) == IF st.saved = NoErr THEN [st EXCEPT !.saved = e] ELSE st

\* the error json.Unmarshal / Decode reports for a finished decode state
DecErr(st) == IF st.abort # NoErr THEN st.abort ELSE st.saved

\* json.Unmarshal(b, d) for d = &apiTimestamp{}: one member of the object
ApiTimestampMember(st, m) ==
  LET k == m[1]
      v == m[2]
  IN  IF k \notin {"datetime", "formatted"} \/ v.t = "null" THEN st
      ELSE IF v.t # "str" THEN Save(st, TypeErr)
      ELSE IF k = "datetime" THEN [st EXCEPT !.val.Datetime = v.v]
      ELSE [st EXCEPT !.val.Format = v.v]

RECURSIVE ApiTimestampMembers(_, _, _)
ApiTimestampMembers(st, f, i) == IF i > Len(f) THEN st ELSE ApiTimestampMembers(ApiTimestampMember(st, f[i]), f, i + 1)

UnmarshalApiTimestamp(jv) ==
  LET zero == DecSt([Datetime |-> <<>>, Format |-> <<>>])
  IN  IF jv.t = "null" THEN zero
      ELSE IF jv.t = "obj" THEN ApiTimestampMembers(zero, jv.f, 1)
      ELSE Save(zero, TypeErr)

TimestampErr == "go-snipeit: can not parse api timestamp"

\* UnmarshalJSON not storing the time it parsed
TimestampParsedDropsTime(ts, p) ==
  IF p.err # NoErr THEN [err |-> TimestampErr, quoted |-> p.value, ts |-> ts]
  ELSE [err |-> NoErr, quoted |-> <<>>, ts |-> ts]

\* UnmarshalJSON, for the result p of time.Parse: the error is made by
\* fmt.Errorf from the error of time.Parse, and so ends with its text;
\* quoted is the string that text quotes
TimestampParsed(ts, p) ==
  IF p.err # NoErr THEN [err |-> TimestampErr, quoted |-> p.value, ts |-> ts]
  ELSE [err |-> NoErr, quoted |-> <<>>, ts |-> p.t]

\* UnmarshalJSON handing every datetime to time.Parse, the empty one too
TimestampDecodedParsesEmpty(ts, d) ==
  IF DecErr(d) # NoErr THEN [err |-> DecErr(d), quoted |-> <<>>, ts |-> ts]
  ELSE TimestampParsed(ts, ParseTime(d.val.Datetime))

\* UnmarshalJSON, for the state d of json.Unmarshal(b, &apiTimestamp{})
TimestampDecoded(ts, d) ==
  IF DecErr(d) # NoErr THEN [err |-> DecErr(d), quoted |-> <<>>, ts |-> ts]
  ELSE IF d.val.Datetime = <<>> THEN [err |-> NoErr, quoted |-> <<>>, ts |-> ts]
  ELSE TimestampParsed(ts, ParseTime(d.val.Datetime))

\* (*Timestamp).UnmarshalJSON(b): [err, quoted, ts]
TimestampUnmarshalJSON(ts, jv) == TimestampDecoded(ts, UnmarshalApiTimestamp(jv))

\* the zero Location
ZeroLocation == [ID |-> 0, Name |-> "", CreatedAt |-> ZeroTime]

\* the decoder's state after a member that is a Timestamp: an error of
\* UnmarshalJSON ends the decode
SetCreatedAt(st, ts) == IF ts.err # NoErr THEN [st EXCEPT !.abort = ts.err] ELSE [st EXCEPT !.val.CreatedAt = ts.ts]

\* the decoder's state st after a nested value was decoded with state d and
\* stored as val: a fatal error of the nested decode ends the outer one, a
\* saved error is saved if it is the first
Nested(st, val, d) ==
  IF d.saved # NoErr THEN Save([st EXCEPT !.val = val, !.abort = d.abort], d.saved)
  ELSE [st EXCEPT !.val = val, !.abort = d.abort]

\* decoding one member of a JSON object into a Location
LocationMember(st, m) ==
  LET k == m[1]
      v == m[2]
  IN  IF st.abort # NoErr THEN st
      ELSE IF k = "created_at" THEN SetCreatedAt(st, TimestampUnmarshalJSON(st.val.CreatedAt, v))
      ELSE IF k \notin {"id", "name"} \/ v.t = "null" THEN st
      ELSE IF k = "id" THEN (IF v.t = "num" THEN [st EXCEPT !.val.ID = v.v] ELSE Save(st, TypeErr))
      ELSE (IF v.t = "str" THEN [st EXCEPT !.val.Name = v.v] ELSE Save(st, TypeErr))

RECURSIVE LocationMembers(_, _, _)
LocationMembers(st, f, i) == IF i > Len(f) THEN st ELSE LocationMembers(LocationMember(st, f[i]), f, i + 1)

\* decoding a JSON value into a Location holding prior
UnmarshalLocation(prior, jv) ==
  IF jv.t = "null" THEN DecSt(prior)
  ELSE IF jv.t = "obj" THEN LocationMembers(DecSt(prior), jv.f, 1)
  ELSE Save(DecSt(prior), TypeErr)

\* the zero Hardware (Location is a nil *Location)
ZeroHardware == [ID |-> 0, Name |-> "", Location |-> Nil, CreatedAt |-> ZeroTime]

\* the decoder's state after the member "location" was decoded with state loc
SetLocation(st, loc) == Nested(st, [st.val EXCEPT !.Location = loc.val], loc)

\* decoding one member of a JSON object into a Hardware
HardwareMember(st, m) ==
  LET k == m[1]
      v == m[2]
  IN  IF st.abort # NoErr THEN st
      ELSE IF k = "created_at" THEN SetCreatedAt(st, TimestampUnmarshalJSON(st.val.CreatedAt, v))
      ELSE IF k = "location" THEN
        (IF v.t = "null" THEN [st EXCEPT !.val.Location = Nil]
         ELSE SetLocation(st, UnmarshalLocation(IF st.val.Location = Nil THEN ZeroLocation ELSE st.val.Location, v)))
      ELSE IF k \notin {"id", "name"} \/ v.t = "null" THEN st
      ELSE IF k = "id" THEN (IF v.t = "num" THEN [st EXCEPT !.val.ID = v.v] ELSE Save(st, TypeErr))
      ELSE (IF v.t = "str" THEN [st EXCEPT !.val.Name = v.v] ELSE Save(st, TypeErr))

RECURSIVE HardwareMembers(_, _, _)
HardwareMembers(st, f, i) == IF i > Len(f) THEN st ELSE HardwareMembers(HardwareMember(st, f[i]), f, i + 1)

\* decoding a JSON value into a Hardware holding prior
UnmarshalHardware(prior, jv) ==
  IF jv.t = "null" THEN DecSt(prior)
  ELSE IF jv.t = "obj" THEN HardwareMembers(DecSt(prior), jv.f, 1)
  ELSE Save(DecSt(prior), TypeErr)

\* the decoder's state after the array element jv was decoded with state d
AppendRow(st, jv, d) == Nested(st, Append(st.val, IF jv.t = "null" THEN Nil ELSE d.val), d)

\* decoding the elements of a JSON array into a []*Location (row = "Location")
\* or a []*Hardware: the slice is reset and each element appended to it; a
\* null element gives a nil pointer
RECURSIVE RowsElems(_, _, _, _)
RowsElems(row, st, e, i) ==
  IF i > Len(e) \/ st.abort # NoErr THEN st
  ELSE RowsElems(row, AppendRow(st, e[i], IF row = "Location" THEN UnmarshalLocation(ZeroLocation, e[i]) ELSE UnmarshalHardware(ZeroHardware, e[i])), e, i + 1)

\* the zero value of the anonymous struct {Total int64; Rows []*T}; a nil
\* slice and an empty slice are both the empty sequence
ZeroList == [Total |-> 0, Rows |-> <<>>]

\* the decoder's state after the member "rows" was decoded with state rows
SetRows(st, rows) == Nested(st, [st.val EXCEPT !.Rows = rows.val], rows)

\* decoding one member of a JSON object into the list struct
ListMember(row, st, m) ==
  LET k == m[1]
      v == m[2]
  IN  IF st.abort # NoErr THEN st
      ELSE IF k \notin {"total", "rows"} \/ (k = "total" /\ v.t = "null") THEN st
      ELSE IF k = "total" THEN (IF v.t = "num" THEN [st EXCEPT !.val.Total = v.v] ELSE Save(st, TypeErr))
      ELSE IF v.t = "null" THEN [st EXCEPT !.val.Rows = <<>>]
      ELSE IF v.t # "arr" THEN Save(st, TypeErr)
      ELSE SetRows(st, RowsElems(row, DecSt(<<>>), v.e, 1))

RECURSIVE ListMembers(_, _, _, _)
ListMembers(row, st, f, i) == IF i > Len(f) THEN st ELSE ListMembers(row, ListMember(row, st, f[i]), f, i + 1)

\* decoding a JSON value into the list struct holding prior
UnmarshalList(row, prior, jv) ==
  IF jv.t = "null" THEN DecSt(prior)
  ELSE IF jv.t = "obj" THEN ListMembers(row, DecSt(prior), jv.f, 1)
  ELSE Save(DecSt(prior), TypeErr)

\* response bodies: no bytes at all, bytes that are not JSON, a JSON text
\* cut off in the middle, or a complete JSON text
EmptyBody == [kind |-> "empty"]

GarbageBody == [kind |-> "garbage"]

TruncatedBody == [kind |-> "truncated"]

JSONBody(jv) == [kind |-> "json", val |-> jv]

\* decode targets: nil, an io.Writer holding buf, a *Location, a pointer to
\* the list struct with rows of type row, and a pointer to a struct that
\* embeds both a Location and a bytes.Buffer, which json can decode into and
\* which is an io.Writer as well
NilTarget == [kind |-> "nil"]

WriterTarget(buf) == [kind |-> "writer", buf |-> buf]

RecordWriterTarget(val, buf) == [kind |-> "writer", buf |-> buf, val |-> val]

LocationTarget(val) == [kind |-> "Location", val |-> val]

ListTarget(row, val) == [kind |-> "List", row |-> row, val |-> val]

\* what Decode returns for the finished decode state st: the target as the
\* decoder left it, and the decoder's error
Decoded(v, st) == [err |-> DecErr(st), v |-> [v EXCEPT !.val = st.val]]

\* json.NewDecoder(body).Decode(v): [err, v]
Decode(body, v) ==
  IF body.kind = "empty" THEN [err |-> "EOF", v |-> v]
  ELSE IF body.kind = "garbage" THEN [err |-> "invalid character looking for beginning of value", v |-> v]
  ELSE IF body.kind = "truncated" THEN [err |-> "unexpected EOF", v |-> v]
  ELSE Decoded(v, IF v.kind = "Location" THEN UnmarshalLocation(v.val, body.val) ELSE UnmarshalList(v.row, v.val, body.val))

\* ------------------------------------------------- go-querystring, Encode
\* fmt.Sprint of an int
RECURSIVE Itoa(_)
Itoa(n) ==
  IF n < 0 THEN <<"-">> \o Itoa(0 - n)
  ELSE IF n < 10 THEN <<DigitChars[n + 1]>>
  ELSE Itoa(n \div 10) \o <<DigitChars[(n % 10) + 1]>>

\* byte order of the characters that occur in keys
KeyChars == <<"_", "a", "b", "c", "d", "e", "f", "g", "h", "i", "j", "k", "l", "m", "n", "o", "p", "q", "r", "s", "t", "u", "v", "w", "x", "y", "z">>

Rank(c) == CHOOSE i \in 1..Len(KeyChars) : KeyChars[i] = c

\* a <= b in the byte-wise order of Go strings
RECURSIVE StrLeq(_, _)
StrLeq(a, b) ==
  IF a = <<>> THEN TRUE
  ELSE IF b = <<>> THEN FALSE
  ELSE IF a[1] # b[1] THEN Rank(a[1]) < Rank(b[1])
  ELSE StrLeq(Tail(a), Tail(b))

\* sort.Strings over a set of keys
RECURSIVE SortKeys(_)
SortKeys(S) ==
  IF S = {} THEN <<>>
  ELSE LET m == CHOOSE k \in S : \A j \in S : StrLeq(k, j)
       IN  <<m>> \o SortKeys(S \ {m})

\* url.QueryEscape of one character: unreserved characters stay, a space
\* becomes '+', everything else is %XX
Unreserved == Letters \cup {DigitChars[i] : i \in 1..10} \cup {"-", "_", ".", "~"}

EscapeChar(c) ==
  IF c \in Unreserved THEN <<c>>
  ELSE IF c = " " THEN <<"+">>
  ELSE IF c = "&" THEN <<"%", "2", "6">>
  ELSE IF c = "=" THEN <<"%", "3", "D">>
  ELSE IF c = "/" THEN <<"%", "2", "F">>
  ELSE IF c = "?" THEN <<"%", "3", "F">>
  ELSE IF c = ":" THEN <<"%", "3", "A">>
  ELSE IF c = "%" THEN <<"%", "2", "5">>
  ELSE <<"%", "X", "X">>

RECURSIVE QueryEscape(_)
QueryEscape(x) == IF x = <<>> THEN <<>> ELSE EscapeChar(x[1]) \o QueryEscape(Tail(x))

\* the `url:"...,omitempty"` tags of the options structs: field -> key
LocationListTags ==
  [Limit |-> <<"l", "i", "m", "i", "t">>,
   Offset |-> <<"o", "f", "f", "s", "e", "t">>,
   Search |-> <<"s", "e", "a", "r", "c", "h">>,
   Sort |-> <<"s", "o", "r", "t">>,
   Order |-> <<"o", "r", "d", "e", "r">>]

HardwareListTags ==
  [Limit |-> <<"l", "i", "m", "i", "t">>,
   Offset |-> <<"o", "f", "f", "s", "e", "t">>,
   Search |-> <<"s", "e", "a", "r", "c", "h">>,
   OrderNumber |-> <<"o", "r", "d", "e", "r", "_", "n", "u", "m", "b", "e", "r">>,
   Sort |-> <<"s", "o", "r", "t">>,
   Order |-> <<"o", "r", "d", "e", "r">>,
   ModelID |-> <<"m", "o", "d", "e", "l", "_", "i", "d">>,
   CategoryID |-> <<"c", "a", "t", "e", "g", "o", "r", "y", "_", "i", "d">>,
   ManufacturerID |-> <<"m", "a", "n", "u", "f", "a", "c", "t", "u", "r", "e", "r", "_", "i", "d">>,
   CompanyID |-> <<"c", "o", "m", "p", "a", "n", "y", "_", "i", "d">>,
   LocationID |-> <<"l", "o", "c", "a", "t", "i", "o", "n", "_", "i", "d">>,
   Status |-> <<"s", "t", "a", "t", "u", "s">>,
   StatusID |-> <<"s", "t", "a", "t", "u", "s", "_", "i", "d">>]

IntFields == {"Limit", "Offset", "ModelID", "CategoryID", "ManufacturerID", "CompanyID", "LocationID"}

TagsOf(opt) == IF opt.kind = "LocationListOptions" THEN LocationListTags ELSE HardwareListTags

\* an options value: a nil *T, an untyped nil, a non-struct value, or a
\* pointer to an options struct with fields f
NilOpt == [kind |-> "nilptr"]

UntypedNilOpt == [kind |-> "nil"]

IntOpt == [kind |-> "int"]

\* the zero value of a field (omitempty drops it)
IsZero(field, x) == IF field \in IntFields THEN x = 0 ELSE x = <<>>

\* query.Values without omitempty: every field gives a key
QueryValuesKeepsEmpty(opt) ==
  LET tags == TagsOf(opt)
      fieldOf(k) == CHOOSE fld \in DOMAIN tags : tags[fld] = k
  IN  [k \in {tags[fld] : fld \in DOMAIN tags} |-> IF fieldOf(k) \in IntFields THEN Itoa(opt.f[fieldOf(k)]) ELSE opt.f[fieldOf(k)]]

\* query.Values(opt): the key -> value map as a function on the keys present
QueryValues(opt) ==
  LET tags == TagsOf(opt)
      present == {fld \in DOMAIN tags : ~IsZero(fld, opt.f[fld])}
      fieldOf(k) == CHOOSE fld \in present : tags[fld] = k
  IN  [k \in {tags[fld] : fld \in present} |-> IF fieldOf(k) \in IntFields THEN Itoa(opt.f[fieldOf(k)]) ELSE opt.f[fieldOf(k)]]

\* Encode writing keys and values as they are, without escaping them
RECURSIVE EncodePairsRaw(_, _, _)
EncodePairsRaw(qs, keys, i) ==
  IF i > Len(keys) THEN <<>>
  ELSE (IF i > 1 THEN <<"&">> ELSE <<>>) \o keys[i] \o <<"=">> \o qs[keys[i]] \o EncodePairsRaw(qs, keys, i + 1)

\* url.Values.Encode(): key=value pairs, sorted by key, joined by '&'
RECURSIVE EncodePairs(_, _, _)
EncodePairs(qs, keys, i) ==
  IF i > Len(keys) THEN <<>>
  ELSE (IF i > 1 THEN <<"&">> ELSE <<>>) \o QueryEscape(keys[i]) \o <<"=">> \o QueryEscape(qs[keys[i]]) \o EncodePairs(qs, keys, i + 1)

Encode(qs) == EncodePairs(qs, SortKeys(DOMAIN qs), 1)

\* AddOptions, for the result p of url.Parse(s): query.Values gives no
\* values for an untyped nil, and an error for a value that is no struct
AddOptionsParsed(s, opt, p) ==
  IF p.err # NoErr THEN [s |-> s, err |-> p.err]
  ELSE IF opt.kind = "int" THEN [s |-> s, err |-> "query: Values() expects struct input"]
  ELSE IF opt.kind = "nil" THEN [s |-> URLString([p.u EXCEPT !.RawQuery = <<>>]), err |-> NoErr]
  ELSE [s |-> URLString([p.u EXCEPT !.RawQuery = Encode(QueryValues(opt))]), err |-> NoErr]

\* (*Client).AddOptions(s, opt): [s, err]
AddOptions(c, s, opt) == IF opt.kind = "nilptr" THEN [s |-> s, err |-> NoErr] ELSE AddOptionsParsed(s, opt, ParseURL(s))

\* ------------------------------------------------ the server's side: ParseForm
\* the character a %XX escape stands for
Unhex(h) ==
  IF h = <<"2", "6">> THEN "&"
  ELSE IF h = <<"3", "D">> THEN "="
  ELSE IF h = <<"2", "F">> THEN "/"
  ELSE IF h = <<"3", "F">> THEN "?"
  ELSE IF h = <<"3", "A">> THEN ":"
  ELSE IF h = <<"2", "5">> THEN "%"
  ELSE "invalid"

\* url.QueryUnescape: '+' is a space, %XX the character it stands for
RECURSIVE QueryUnescape(_)
QueryUnescape(x) ==
  IF x = <<>> THEN <<>>
  ELSE IF x[1] = "+" THEN <<" ">> \o QueryUnescape(Tail(x))
  ELSE IF x[1] = "%" THEN <<Unhex(SubSeq(x, 2, 3))>> \o QueryUnescape(SubSeq(x, 4, Len(x)))
  ELSE <<x[1]>> \o QueryUnescape(Tail(x))

\* strings.Split(s, c)
RECURSIVE SplitOn(_, _)
SplitOn(s, c) == IF ~Contains(s, c) THEN <<s>> ELSE <<CutBefore(s, c)>> \o SplitOn(CutAfter(s, c), c)

\* the key=value parts of a query, empty parts dropped
QueryParts(q) == SelectSeq(SplitOn(q, "&"), LAMBDA x : x # <<>>)

\* (*Request).ParseForm for the query q: its <<key, value>> pairs, in order
ParseForm(q) == [i \in 1..Len(QueryParts(q)) |-> <<QueryUnescape(CutBefore(QueryParts(q)[i], "=")), QueryUnescape(CutAfter(QueryParts(q)[i], "="))>>]

\* ------------------------------------------------------------- Client.Do
\* what c.client.Do(req) gives back: an error, or a response with a status
\* code and a body that is still open
TransportErr(e) == [err |-> e, resp |-> Nil]

TransportResp(code, body) == [err |-> NoErr, resp |-> [StatusCode |-> code, Body |-> body, closed |-> FALSE]]

\* the end of Do, for the result dec of Decode: io.EOF is no error, any
\* other error of the decoder is returned as it is
DoDecoded(resp, req, dec) == [resp |-> resp, err |-> IF dec.err = "EOF" THEN NoErr ELSE dec.err, v |-> dec.v, sent |-> <<req>>]

\* Do decoding the body into every target that has a record, an io.Writer
\* included
DoReadDecodesRecords(resp, req, v) ==
  LET Into(d) == [resp |-> resp, err |-> IF d.err = "EOF" THEN NoErr ELSE d.err, v |-> [v EXCEPT !.val = d.v.val], sent |-> <<req>>]
  IN  IF v.kind = "nil" THEN [resp |-> resp, err |-> NoErr, v |-> v, sent |-> <<req>>]
      ELSE IF v.kind = "writer" /\ "val" \notin DOMAIN v THEN [resp |-> resp, err |-> NoErr, v |-> [v EXCEPT !.buf = Append(@, resp.Body)], sent |-> <<req>>]
      ELSE IF v.kind = "writer" THEN Into(Decode(resp.Body, LocationTarget(v.val)))
      ELSE DoDecoded(resp, req, Decode(resp.Body, v))

\* Do for the response resp, closed when Do returns: nothing is read for a
\* nil v, the body is copied to a v that is an io.Writer, and decoded into
\* any other v
DoRead(resp, req, v) ==
  IF v.kind = "nil" THEN [resp |-> resp, err |-> NoErr, v |-> v, sent |-> <<req>>]
  ELSE IF v.kind = "writer" THEN [resp |-> resp, err |-> NoErr, v |-> [v EXCEPT !.buf = Append(@, resp.Body)], sent |-> <<req>>]
  ELSE DoDecoded(resp, req, Decode(resp.Body, v))

\* Do as a revision that decodes whatever the status code is
DoAnyStatus(c, req, v, t) ==
  IF t.err # NoErr THEN [resp |-> Nil, err |-> t.err, v |-> v, sent |-> <<req>>]
  ELSE DoRead([t.resp EXCEPT !.closed = TRUE], req, v)

\* Do dropping every error of the decoder, not only io.EOF
DoDropsDecodeError(c, req, v, t) ==
  LET Dropped(d) == [d EXCEPT !.err = NoErr]
  IN  IF t.err # NoErr THEN [resp |-> Nil, err |-> t.err, v |-> v, sent |-> <<req>>]
      ELSE IF 200 > t.resp.StatusCode \/ t.resp.StatusCode > 299 THEN [resp |-> t.resp, err |-> NoErr, v |-> v, sent |-> <<req>>]
      ELSE Dropped(DoRead([t.resp EXCEPT !.closed = TRUE], req, v))

\* Do without the io.EOF exception
DoKeepsEOF(c, req, v, t) ==
  LET Kept(d) == IF v.kind \in {"nil", "writer"} \/ t.resp.Body # EmptyBody THEN d ELSE [d EXCEPT !.err = "EOF"]
  IN  IF t.err # NoErr THEN [resp |-> Nil, err |-> t.err, v |-> v, sent |-> <<req>>]
      ELSE IF 200 > t.resp.StatusCode \/ t.resp.StatusCode > 299 THEN [resp |-> t.resp, err |-> NoErr, v |-> v, sent |-> <<req>>]
      ELSE Kept(DoRead([t.resp EXCEPT !.closed = TRUE], req, v))

\* Do replacing the decoder's error by an error of its own
DoWrapsDecodeError(c, req, v, t) ==
  LET Wrapped(d) == IF d.err = NoErr THEN d ELSE [d EXCEPT !.err = "snipeit: decode error"]
  IN  IF t.err # NoErr THEN [resp |-> Nil, err |-> t.err, v |-> v, sent |-> <<req>>]
      ELSE IF 200 > t.resp.StatusCode \/ t.resp.StatusCode > 299 THEN [resp |-> t.resp, err |-> NoErr, v |-> v, sent |-> <<req>>]
      ELSE Wrapped(DoRead([t.resp EXCEPT !.closed = TRUE], req, v))

\* Do sending the request a second time when the transport fails
DoRetries(c, req, v, t) ==
  IF t.err # NoErr THEN [resp |-> Nil, err |-> t.err, v |-> v, sent |-> <<req, req>>]
  ELSE IF 200 > t.resp.StatusCode \/ t.resp.StatusCode > 299 THEN [resp |-> t.resp, err |-> NoErr, v |-> v, sent |-> <<req>>]
  ELSE DoRead([t.resp EXCEPT !.closed = TRUE], req, v)

\* (*Client).Do(req, v) when the transport answers t: the returned response
\* and error, the target as the call leaves it, and the requests the call
\* handed to the transport.  The return for a status outside [200, 299]
\* comes before the deferred Close of the body is registered.
Do(c, req, v, t) ==
  IF t.err # NoErr THEN [resp |-> Nil, err |-> t.err, v |-> v, sent |-> <<req>>]
  ELSE IF 200 > t.resp.StatusCode \/ t.resp.StatusCode > 299 THEN [resp |-> t.resp, err |-> NoErr, v |-> v, sent |-> <<req>>]
  ELSE DoRead([t.resp EXCEPT !.closed = TRUE], req, v)

\* --------------------------------------------------------------- accessors
LocationsPath == <<"l", "o", "c", "a", "t", "i", "o", "n", "s">>

HardwarePath == <<"h", "a", "r", "d", "w", "a", "r", "e">>

NoTransport == [err |-> "transport not reached", resp |-> Nil]

\* List returning no more rows than the total of the envelope says
ListDoneCutsAtTotal(d) ==
  IF d.err # NoErr THEN [val |-> <<>>, resp |-> d.resp, err |-> d.err, sent |-> d.sent]
  ELSE [val |-> SubSeq(d.v.val.Rows, 1, IF d.v.val.Total < Len(d.v.val.Rows) THEN d.v.val.Total ELSE Len(d.v.val.Rows)),
        resp |-> d.resp, err |-> NoErr, sent |-> d.sent]

\* what a List accessor returns for the result d of Do
ListDone(d) ==
  IF d.err # NoErr THEN [val |-> <<>>, resp |-> d.resp, err |-> d.err, sent |-> d.sent]
  ELSE [val |-> d.v.val.Rows, resp |-> d.resp, err |-> NoErr, sent |-> d.sent]

\* List, for the result r of NewRequest
ListBuilt(c, row, t, r) ==
  IF r.err # NoErr THEN [val |-> <<>>, resp |-> Nil, err |-> r.err, sent |-> <<>>]
  ELSE ListDone(Do(c, r.req, ListTarget(row, ZeroList), t))

\* List, for the result a of AddOptions
ListWithOptions(c, row, t, a) ==
  IF a.err # NoErr THEN [val |-> <<>>, resp |-> Nil, err |-> a.err, sent |-> <<>>]
  ELSE ListBuilt(c, row, t, NewRequest(c, "GET", a.s, NoBody))

\* List handing the request to Do without looking at NewRequest's error
ListSendsUnbuilt(c, path, row, opt, t) ==
  LET Unbuilt(r) == [val |-> <<>>, resp |-> Nil, err |-> IF r.err # NoErr THEN r.err ELSE t.err, sent |-> <<r.req>>]
      WithOptions(a) ==
        IF a.err # NoErr THEN [val |-> <<>>, resp |-> Nil, err |-> a.err, sent |-> <<>>]
        ELSE Unbuilt(NewRequest(c, "GET", a.s, NoBody))
  IN  WithOptions(AddOptions(c, path, opt))

\* the body shared by the List accessors: path is the resource, row the
\* record type of the rows; the result is (value, response, error) and the
\* requests handed to the transport
List(c, path, row, opt, t) == ListWithOptions(c, row, t, AddOptions(c, path, opt))

\* (*LocationService).List(opt)
LocationsList(c, opt, t) == List(c, LocationsPath, "Location", opt, t)

\* (*HardwareService).List(opt)
HardwareList(c, opt, t) == List(c, HardwarePath, "Hardware", opt, t)

\* Get returning no record when the status is outside [200, 299]
GetDoneNilOnStatus(d) ==
  IF d.err # NoErr THEN [val |-> Nil, resp |-> d.resp, err |-> d.err, sent |-> d.sent]
  ELSE IF 200 > d.resp.StatusCode \/ d.resp.StatusCode > 299 THEN [val |-> Nil, resp |-> d.resp, err |-> NoErr, sent |-> d.sent]
  ELSE [val |-> d.v.val, resp |-> d.resp, err |-> NoErr, sent |-> d.sent]

\* what Get returns for the result d of Do
GetDone(d) ==
  IF d.err # NoErr THEN [val |-> Nil, resp |-> d.resp, err |-> d.err, sent |-> d.sent]
  ELSE [val |-> d.v.val, resp |-> d.resp, err |-> NoErr, sent |-> d.sent]

\* Get, for the result r of NewRequest
GetBuilt(c, t, r) ==
  IF r.err # NoErr THEN [val |-> Nil, resp |-> Nil, err |-> r.err, sent |-> <<>>]
  ELSE GetDone(Do(c, r.req, LocationTarget(ZeroLocation), t))

\* (*LocationService).Get(id)
LocationsGet(c, id, t) == GetBuilt(c, t, NewRequest(c, "GET", LocationsPath \o <<"/">> \o Itoa(id), NoBody))

\* the request a List accessor hands to Do, [req, err], for the result a of
\* AddOptions
RequestWithOptions(c, a) == IF a.err # NoErr THEN [req |-> Nil, err |-> a.err] ELSE NewRequest(c, "GET", a.s, NoBody)

ListRequest(c, path, opt) == RequestWithOptions(c, AddOptions(c, path, opt))

\* the request Get hands to Do, [req, err]
GetRequest(c, id) == NewRequest(c, "GET", LocationsPath \o <<"/">> \o Itoa(id), NoBody)

\* ------------------------------------------------------------------ inputs
\* base URLs: a prefix (none, scheme and host, a bare ':') followed by a
\* short path, and one opaque URL
BaseAlphabet == {"/", "l", "%", ".", ":"}

BasePrefixes == {<<>>, <<"h", ":", "/", "/", "x">>, <<":">>}

BaseURLInputs == {pre \o q : pre \in BasePrefixes, q \in SeqsUpTo(BaseAlphabet, MaxBaseLen)} \cup {<<"h", ":", "l">>}

Tokens == {<<>>, <<"t">>, <<"s">>}

\* the arguments of NewClient: every base URL without a token and with one,
\* and one base URL with another token
NewClientInputs ==
  {<<b, t>> : b \in BaseURLInputs, t \in {<<>>, <<"t">>}} \cup {<<b, t>> : b \in {<<"h", ":", "/", "/", "x", "/">>}, t \in Tokens}

\* the method and body arguments of NewRequest: every body with GET, every
\* method without a body
RequestInputs == {in \in Methods \X ReqBodies : in[1] = "GET" \/ in[2] = NoBody}

PathAlphabet == {"l", "/", ".", ":", "?", "%"}

PathInputs == SeqsUpTo(PathAlphabet, MaxPathLen)

\* the paths given together with arguments that fail whatever the path is
ShortPathInputs == SeqsUpTo(PathAlphabet, MaxPathLen - 1)

LocationOpts ==
  {NilOpt} \cup {[kind |-> "LocationListOptions", f |-> [Limit |-> l, Offset |-> 0, Search |-> q, Sort |-> <<>>, Order |-> o]] :
                   l \in {0, 10}, q \in {<<>>, <<"t", "e", "s", "t">>, <<"l", " ", "&">>}, o \in {<<>>, <<"a", "s", "c">>}}

ZeroHardwareFields ==
  [Limit |-> 0, Offset |-> 0, Search |-> <<>>, OrderNumber |-> <<>>, Sort |-> <<>>, Order |-> <<>>, ModelID |-> 0,
   CategoryID |-> 0, ManufacturerID |-> 0, CompanyID |-> 0, LocationID |-> 0, Status |-> <<>>, StatusID |-> <<>>]

HardwareOpts ==
  {NilOpt} \cup {[kind |-> "HardwareListOptions", f |-> [ZeroHardwareFields EXCEPT !.LocationID = l, !.Status = st, !.OrderNumber = n]] :
                   l \in {0, 1}, st \in {<<>>, <<"r", "t", "d">>}, n \in {<<>>, <<"7">>}}

\* the options given to AddOptions: no options, a value that is no struct,
\* the options with every field zero, and options with a limit and a search
\* string that needs escaping
OptInputs ==
  {NilOpt, UntypedNilOpt, IntOpt}
    \cup {o \in LocationOpts : o.kind # "nilptr" /\ o.f.Order = <<>> /\ (o.f.Limit = 0 <=> o.f.Search = <<>>) /\ o.f.Search # <<"t", "e", "s", "t">>}

IDs == {1, 12}

GoodDatetime == <<"2", "0", "1", "9", "-", "0", "5", "-", "2", "1", " ", "2", "1", ":", "3", "7", ":", "4", "0">>

\* not the layout: a 'T' between date and time
BadDatetime == <<"2", "0", "1", "9", "-", "0", "5", "-", "2", "1", "T", "2", "1", ":", "3", "7", ":", "4", "0">>

GoodFormatted == <<"2", "0", "1", "9", "-", "0", "5", "-", "2", "1", " ", "0", "9", ":", "3", "7", " ", "P", "M">>

\* the wire value of a timestamp
StampOf(dt, formatted) == JObj(<< <<"datetime", JStr(dt)>>, <<"formatted", JStr(formatted)>> >>)

Stamp(dt) == StampOf(dt, GoodFormatted)

LocJSON(id, name) == JObj(<< <<"id", JNum(id)>>, <<"name", JStr(name)>> >>)

StampedLocJSON(id, name, dt) == JObj(<< <<"id", JNum(id)>>, <<"created_at", Stamp(dt)>>, <<"name", JStr(name)>> >>)

HwJSON(id, name, loc) == JObj(<< <<"id", JNum(id)>>, <<"name", JStr(name)>>, <<"location", loc>> >>)

Envelope(total, rows) == JObj(<< <<"total", JNum(total)>>, <<"rows", JArr(rows)>> >>)

\* an error object of the API, with members a record and an envelope have
NotFoundJSON ==
  JObj(<< <<"status", JStr("error")>>, <<"name", JStr("Not found")>>, <<"id", JNum(404)>>, <<"total", JNum(404)>>, <<"rows", JArr(<< LocJSON(404, "Not found") >>)>> >>)

JSONValues ==
  {JNull,
   JArr(<<>>),
   LocJSON(1, "Test"),
   StampedLocJSON(2, "Stamped", GoodDatetime),
   StampedLocJSON(3, "Late", BadDatetime),
   JObj(<< <<"id", JStr("one")>>, <<"name", JStr("Mismatch")>> >>),
   Envelope(1, << LocJSON(1, "Test") >>),
   Envelope(7, << LocJSON(2, "B"), LocJSON(1, "A") >>),
   Envelope(0, << StampedLocJSON(2, "Stamped", GoodDatetime), LocJSON(1, "A") >>),
   Envelope(1, << StampedLocJSON(3, "Late", BadDatetime) >>),
   Envelope(1, << HwJSON(10, "hardware", JObj(<< <<"id", JNum(1)>> >>)) >>),
   NotFoundJSON}

Bodies == {EmptyBody, GarbageBody, TruncatedBody} \cup {JSONBody(jv) : jv \in JSONValues}

StatusCodes == {199, 200, 299, 300, 404}

\* the bodies of the responses with another status than 200
OtherBodies == {EmptyBody, GarbageBody, JSONBody(LocJSON(1, "Test")), JSONBody(Envelope(1, << LocJSON(1, "Test") >>)), JSONBody(NotFoundJSON)}

TransportErrors == {"dial tcp: connection refused", "context deadline exceeded"}

\* what the transport can answer to req: net/http sends only requests with
\* the http scheme (the letter h) and a host
TransportOutcomes(req) ==
  {TransportErr(e) : e \in TransportErrors}
    \cup (IF req.URL.Scheme = <<"h">> /\ req.URL.Host # <<>>
          THEN {TransportResp(200, b) : b \in Bodies} \cup {TransportResp(code, b) : code \in StatusCodes \ {200}, b \in OtherBodies}
          ELSE {})

Targets ==
  {NilTarget, WriterTarget(<<>>), WriterTarget(<<GarbageBody>>), RecordWriterTarget(ZeroLocation, <<>>),
   LocationTarget(ZeroLocation), LocationTarget([ID |-> 9, Name |-> "Prior", CreatedAt |-> ZeroTime]),
   ListTarget("Location", ZeroList), ListTarget("Location", [Total |-> 9, Rows |-> <<ZeroLocation>>])}

\* ------------------------------------------------------------------- state
VARIABLES client, pc, last

vars == <<client, pc, last>>

NoCall == [op |-> "none"]

Init == client = Nil /\ pc = "idle" /\ last = NoCall

\* the caller calls NewClient(baseURL, token) and keeps the client it gets
NewClientCall ==
  /\ pc = "idle" /\ client = Nil
  /\ \E in \in NewClientInputs :
       \E r \in {NewClient(in[1], in[2])} :
         /\ client' = r.c
         /\ last' = [op |-> "NewClient", baseURL |-> in[1], token |-> in[2], out |-> r]
  /\ pc' = "returned"

\* the caller calls c.AddOptions(s, opt); AddOptions does not read its
\* receiver, and the callers here call it on the clients of the base URL
\* h://x/ only
AddOptionsCall ==
  /\ pc = "idle" /\ client # Nil
  /\ client.BaseURL.Host = <<"x">> /\ client.BaseURL.Path = <<"/">>
  /\ \E opt \in OptInputs :
     \E s \in (IF opt = IntOpt THEN ShortPathInputs ELSE PathInputs) :
       last' = [op |-> "AddOptions", s |-> s, opt |-> opt, out |-> AddOptions(client, s, opt)]
  /\ pc' = "returned"
  /\ UNCHANGED client

\* the caller calls c.NewRequest(method, urlStr, body)
NewRequestCall ==
  /\ pc = "idle" /\ client # Nil
  /\ \E in \in RequestInputs :
     \E urlStr \in (IF in = <<"GET", NoBody>> THEN PathInputs ELSE ShortPathInputs) :
       last' = [op |-> "NewRequest", method |-> in[1], urlStr |-> urlStr, body |-> in[2], out |-> NewRequest(client, in[1], urlStr, in[2])]
  /\ pc' = "returned"
  /\ UNCHANGED client

\* the caller calls c.Do(req, v) with a request built by NewRequest
DoCall ==
  /\ pc = "idle" /\ client # Nil
  /\ \E id \in IDs, v \in Targets :
       \E r \in {GetRequest(client, id)} :
         /\ r.err = NoErr
         /\ \E t \in TransportOutcomes(r.req) :
              last' = [op |-> "Do", req |-> r.req, v |-> v, t |-> t, out |-> Do(client, r.req, v, t)]
  /\ pc' = "returned"
  /\ UNCHANGED client

\* the caller calls c.Locations.List(opt)
LocationsListCall ==
  /\ pc = "idle" /\ client # Nil
  /\ \E opt \in LocationOpts :
       \E r \in {ListRequest(client, LocationsPath, opt)} :
         \E t \in (IF r.err = NoErr THEN TransportOutcomes(r.req) ELSE {NoTransport}) :
           last' = [op |-> "Locations.List", opt |-> opt, build |-> r, t |-> t, out |-> LocationsList(client, opt, t)]
  /\ pc' = "returned"
  /\ UNCHANGED client

\* the caller calls c.Hardware.List(opt)
HardwareListCall ==
  /\ pc = "idle" /\ client # Nil
  /\ \E opt \in HardwareOpts :
       \E r \in {ListRequest(client, HardwarePath, opt)} :
         \E t \in (IF r.err = NoErr THEN TransportOutcomes(r.req) ELSE {NoTransport}) :
           last' = [op |-> "Hardware.List", opt |-> opt, build |-> r, t |-> t, out |-> HardwareList(client, opt, t)]
  /\ pc' = "returned"
  /\ UNCHANGED client

\* the caller calls c.Locations.Get(id)
LocationsGetCall ==
  /\ pc = "idle" /\ client # Nil
  /\ \E id \in IDs :
       \E r \in {GetRequest(client, id)} :
         \E t \in (IF r.err = NoErr THEN TransportOutcomes(r.req) ELSE {NoTransport}) :
           last' = [op |-> "Locations.Get", id |-> id, build |-> r, t |-> t, out |-> LocationsGet(client, id, t)]
  /\ pc' = "returned"
  /\ UNCHANGED client

\* the caller has looked at what the call returned and goes on
Continue ==
  /\ pc = "returned"
  /\ pc' = "idle"
  /\ last' = NoCall
  /\ UNCHANGED client

Next ==
  \/ NewClientCall
  \/ AddOptionsCall
  \/ NewRequestCall
  \/ DoCall
  \/ LocationsListCall
  \/ HardwareListCall
  \/ LocationsGetCall
  \/ Continue

Spec == Init /\ [][Next]_vars

\* BaseURL is an exported field of Client: a caller may replace the base
\* endpoint of a client it got from NewClient.  The second specification
\* adds that step and runs the accessors on the clients it gives; a host
\* with a space in it does not survive String() followed by url.Parse.
AssignedBaseURLs == {[EmptyURL EXCEPT !.Scheme = <<"h">>, !.Host = h, !.Path = q] : h \in {<<"x">>, <<"x", " ">>}, q \in {<<"/">>, <<"/", "l", "/">>}}

\* the caller assigns c.BaseURL
AssignBaseURL ==
  /\ pc = "idle" /\ client # Nil
  /\ \E b \in AssignedBaseURLs :
       /\ client' = [client EXCEPT !.BaseURL = b]
       /\ last' = [op |-> "AssignBaseURL", BaseURL |-> b]
  /\ pc' = "returned"

NextAssigned ==
  \/ NewClientCall
  \/ AssignBaseURL
  \/ LocationsListCall
  \/ HardwareListCall
  \/ LocationsGetCall
  \/ Continue

SpecAssigned == Init /\ [][NextAssigned]_vars

\* ------------------------------------------------- decoding of timestamps
\* The third specification decodes timestamp wire values, by a call of
\* UnmarshalJSON and inside the decode of a Location.  The datetime strings
\* are those within MaxEdits single-character edits of a string in the
\* layout and of the empty string, and one with a fractional second.
MaxEdits == 1

FractionDatetime == GoodDatetime \o <<".", "5">>

EditChars == {"0", "9", " ", "."}

Replace(s, i, c) == [s EXCEPT ![i] = c]

Delete(s, i) == SubSeq(s, 1, i - 1) \o SubSeq(s, i + 1, Len(s))

Insert(s, i, c) == SubSeq(s, 1, i - 1) \o <<c>> \o SubSeq(s, i, Len(s))

Edits(s) ==
  {Replace(s, i, c) : i \in 1..Len(s), c \in EditChars}
    \cup {Delete(s, i) : i \in 1..Len(s)}
    \cup {Insert(s, i, c) : i \in 1..(Len(s) + 1), c \in EditChars}

RECURSIVE Edited(_, _)
Edited(S, n) == IF n = 0 THEN S ELSE Edited(S \cup UNION {Edits(x) : x \in S}, n - 1)

Datetimes == Edited({GoodDatetime, <<>>}, MaxEdits) \cup {FractionDatetime}

Formatteds == {<<>>, GoodFormatted, BadDatetime}

\* wire values that are not an object with the two string members
OddTimestampValues ==
  {JNull, JNum(5), JStr(GoodDatetime), JArr(<<>>), JObj(<<>>),
   JObj(<< <<"formatted", JStr(GoodFormatted)>> >>),
   JObj(<< <<"datetime", JStr(GoodDatetime)>> >>),
   JObj(<< <<"datetime", JNull>>, <<"formatted", JStr(GoodFormatted)>> >>),
   JObj(<< <<"datetime", JNum(2019)>>, <<"formatted", JStr(GoodFormatted)>> >>),
   JObj(<< <<"datetime", JStr(GoodDatetime)>>, <<"formatted", JNull>> >>),
   JObj(<< <<"datetime", JStr(GoodDatetime)>>, <<"formatted", JNum(5)>> >>)}

TimestampValues ==
  {StampOf(dt, GoodFormatted) : dt \in Datetimes}
    \cup {StampOf(dt, f) : dt \in {GoodDatetime, BadDatetime, FractionDatetime, <<>>}, f \in Formatteds}
    \cup OddTimestampValues

\* what the Timestamp holds before the decode: nothing, or an earlier time
PriorTime == [year |-> 2001, month |-> 2, day |-> 3, hour |-> 4, min |-> 5, sec |-> 6, nsec |-> 0]

PriorTimestamps == {ZeroTime, PriorTime}

\* a Location on the wire whose created_at is jv, between id and name
CreatedLocJSON(jv) == JObj(<< <<"id", JNum(2)>>, <<"created_at", jv>>, <<"name", JStr("Stamped")>> >>)

PriorLocation(ts) == [ID |-> 9, Name |-> "Prior", CreatedAt |-> ts]

\* json.Unmarshal(b, &ts) for a Timestamp: the decoder hands b to
\* ts.UnmarshalJSON
UnmarshalJSONCall ==
  /\ pc = "idle"
  /\ \E ts \in PriorTimestamps, jv \in TimestampValues :
       \E r \in {TimestampUnmarshalJSON(ts, jv)} :
         last' = [op |-> "UnmarshalJSON", ts |-> ts, jv |-> jv, out |-> r]
  /\ pc' = "returned"
  /\ UNCHANGED client

\* the decode of a response body that is a Location, as Do runs it
DecodeLocationCall ==
  /\ pc = "idle"
  /\ \E ts \in PriorTimestamps, jv \in TimestampValues :
       \E r \in {Decode(JSONBody(CreatedLocJSON(jv)), LocationTarget(PriorLocation(ts)))} :
         last' = [op |-> "Decode", ts |-> ts, jv |-> jv, out |-> r]
  /\ pc' = "returned"
  /\ UNCHANGED client

NextTimestamp ==
  \/ UnmarshalJSONCall
  \/ DecodeLocationCall
  \/ Continue

SpecTimestamp == Init /\ [][NextTimestamp]_vars

\* ------------------------------------------- concurrent calls on one client
\* The fourth specification has MaxCallers goroutines that share one client.
\* An accessor call is the sequence of its calls of AddOptions, NewRequest
\* and Do, each of which reads the client when it runs; the steps of the
\* callers interleave.  Here pc and last hold one entry for each caller.
MaxCallers == 2

Callers == 1..MaxCallers

ConcurrentBases == {<<"h", ":", "/", "/", "x", "/">>, <<"h", ":", "/", "/", "x", "/", "l">>, <<"l">>}

ConcurrentCalls ==
  {[op |-> "Locations.List", arg |-> o] : o \in {o \in LocationOpts : o.kind = "nilptr" \/ (o.f.Limit = 10 /\ o.f.Search = <<>> /\ o.f.Order = <<>>)}}
    \cup {[op |-> "Hardware.List", arg |-> o] : o \in {o \in HardwareOpts : o.kind # "nilptr" /\ o.f.LocationID = 1 /\ o.f.Status = <<>> /\ o.f.OrderNumber = <<>>}}
    \cup {[op |-> "Locations.Get", arg |-> 12]}

ConcurrentOutcomes(req) ==
  {t \in TransportOutcomes(req) :
     \/ t.err = "dial tcp: connection refused"
     \/ t.err = NoErr /\ t.resp.StatusCode = 200 /\ t.resp.Body = JSONBody(LocJSON(1, "Test"))
     \/ t.err = NoErr /\ t.resp.StatusCode \in {200, 404} /\ t.resp.Body = JSONBody(Envelope(7, << LocJSON(2, "B"), LocJSON(1, "A") >>))}

\* the resource of an accessor
PathOf(op) == IF op = "Hardware.List" THEN HardwarePath ELSE LocationsPath

\* the target an accessor hands to Do
TargetOf(op) ==
  IF op = "Locations.Get" THEN LocationTarget(ZeroLocation)
  ELSE ListTarget(IF op = "Hardware.List" THEN "Hardware" ELSE "Location", ZeroList)

\* what an accessor returns when AddOptions or NewRequest failed with err
Failed(op, err) == [val |-> IF op = "Locations.Get" THEN Nil ELSE <<>>, resp |-> Nil, err |-> err, sent |-> <<>>]

\* what an accessor returns for the result d of Do
Done(op, d) == IF op = "Locations.Get" THEN GetDone(d) ELSE ListDone(d)

InitConcurrent ==
  /\ client = Nil
  /\ pc = [p \in Callers |-> "idle"]
  /\ last = [p \in Callers |-> NoCall]

\* the client is made once, before any caller starts
ConstructCall ==
  /\ client = Nil
  /\ \E baseURL \in ConcurrentBases :
       \E r \in {NewClient(baseURL, <<"t">>)} :
         client' = r.c
  /\ UNCHANGED <<pc, last>>

\* caller p enters an accessor; Get formats its path before anything else
Start(p) ==
  /\ pc[p] = "idle" /\ client # Nil
  /\ \E call \in ConcurrentCalls :
       /\ last' = [last EXCEPT ![p] = [op |-> call.op, arg |-> call.arg,
                                       s |-> IF call.op = "Locations.Get" THEN LocationsPath \o <<"/">> \o Itoa(call.arg) ELSE <<>>,
                                       req |-> Nil, t |-> NoTransport, out |-> Nil]]
       /\ pc' = [pc EXCEPT ![p] = IF call.op = "Locations.Get" THEN "NewRequest" ELSE "AddOptions"]
  /\ UNCHANGED client

\* caller p is at s.client.AddOptions(path, opt)
AddOptionsStep(p) ==
  /\ pc[p] = "AddOptions"
  /\ \E a \in {AddOptions(client, PathOf(last[p].op), last[p].arg)} :
       IF a.err # NoErr
       THEN /\ last' = [last EXCEPT ![p].out = Failed(last[p].op, a.err)]
            /\ pc' = [pc EXCEPT ![p] = "returned"]
       ELSE /\ last' = [last EXCEPT ![p].s = a.s]
            /\ pc' = [pc EXCEPT ![p] = "NewRequest"]
  /\ UNCHANGED client

\* NewRequest keeping the URL it resolved as the base endpoint of the client
NewRequestStepKeepsResolved(p) ==
  /\ pc[p] = "NewRequest"
  /\ \E r \in {NewRequest(client, "GET", last[p].s, NoBody)} :
       IF r.err # NoErr
       THEN /\ last' = [last EXCEPT ![p].out = Failed(last[p].op, r.err)]
            /\ pc' = [pc EXCEPT ![p] = "returned"]
            /\ UNCHANGED client
       ELSE /\ last' = [last EXCEPT ![p].req = r.req]
            /\ pc' = [pc EXCEPT ![p] = "Do"]
            /\ client' = [client EXCEPT !.BaseURL = r.req.URL]

\* caller p is at s.client.NewRequest(http.MethodGet, u, nil): the base
\* endpoint and the token are read, c.BaseURL.Parse gives a new URL
NewRequestStep(p) ==
  /\ pc[p] = "NewRequest"
  /\ \E r \in {NewRequest(client, "GET", last[p].s, NoBody)} :
       IF r.err # NoErr
       THEN /\ last' = [last EXCEPT ![p].out = Failed(last[p].op, r.err)]
            /\ pc' = [pc EXCEPT ![p] = "returned"]
       ELSE /\ last' = [last EXCEPT ![p].req = r.req]
            /\ pc' = [pc EXCEPT ![p] = "Do"]
  /\ UNCHANGED client

\* caller p is at s.client.Do(req, v) and returns what it gives
DoStep(p) ==
  /\ pc[p] = "Do"
  /\ \E t \in ConcurrentOutcomes(last[p].req) :
       \E d \in {Do(client, last[p].req, TargetOf(last[p].op), t)} :
         last' = [last EXCEPT ![p].t = t, ![p].out = Done(last[p].op, d)]
  /\ pc' = [pc EXCEPT ![p] = "returned"]
  /\ UNCHANGED client

\* caller p has looked at what the call returned and goes on
ReturnStep(p) ==
  /\ pc[p] = "returned"
  /\ pc' = [pc EXCEPT ![p] = "idle"]
  /\ last' = [last EXCEPT ![p] = NoCall]
  /\ UNCHANGED client

StartCall == \E p \in Callers : Start(p)

AddOptionsStepCall == \E p \in Callers : AddOptionsStep(p)

NewRequestStepCall == \E p \in Callers : NewRequestStep(p)

DoStepCall == \E p \in Callers : DoStep(p)

ReturnStepCall == \E p \in Callers : ReturnStep(p)

NextConcurrent ==
  \/ ConstructCall
  \/ StartCall
  \/ AddOptionsStepCall
  \/ NewRequestStepCall
  \/ DoStepCall
  \/ ReturnStepCall

SpecConcurrent == InitConcurrent /\ [][NextConcurrent]_vars

\* ------------------------------------------------------------- properties
IsAccessor == last.op \in {"Locations.List", "Hardware.List", "Locations.Get"}

\* the accessor call reached the transport
Sent == IsAccessor /\ last.build.err = NoErr

\* the transport produced a response in the call last records
Answered == (last.op = "Do" \/ Sent) /\ last.t.err = NoErr

Success(code) == code \in 200..299

\* the fresh target the accessor of last hands to Do
FreshTarget ==
  IF last.op = "Locations.Get" THEN LocationTarget(ZeroLocation)
  ELSE ListTarget(IF last.op = "Hardware.List" THEN "Hardware" ELSE "Location", ZeroList)

\* the value an accessor returns when it returns no value
NoValue == IF last.op = "Locations.Get" THEN Nil ELSE <<>>

\* the value an accessor returns for the decoded target v
ValueOf(v) == IF last.op = "Locations.Get" THEN v.val ELSE v.val.Rows

\* C1: for a response with a status outside [200, 299], Do returns that
\* response (with its status code) and a nil error, and leaves the target v
\* exactly as the caller passed it.
C1_NonSuccessNotDecoded ==
  (last.op = "Do" /\ last.t.err = NoErr /\ ~Success(last.t.resp.StatusCode)) =>
    /\ last.out.resp # Nil
    /\ last.out.resp.StatusCode = last.t.resp.StatusCode
    /\ last.out.resp.Body = last.t.resp.Body
    /\ last.out.err = NoErr
    /\ last.out.v = last.v

\* a 404 whose JSON body would have changed the target, had it been decoded
C1_Witness ==
  /\ last.op = "Do" /\ last.t.err = NoErr /\ last.t.resp.StatusCode = 404
  /\ last.v.kind = "Location"
  /\ last.t.resp.Body.kind = "json"
  /\ Decode(last.t.resp.Body, last.v).v # last.v
  /\ last.out.v = last.v

\* C2: whenever the transport has produced a response, the body of that
\* response is closed when Do returns, on every path.
C2_BodyAlwaysClosed == Answered => last.out.resp.closed

\* C3 as stated: an accessor that returns a nil error got a response from
\* the transport, and the value it returns is the result of a successful
\* decode of that response's body.
C3_NilErrorMeansDecoded ==
  (IsAccessor /\ last.out.err = NoErr) =>
    /\ Sent /\ last.t.err = NoErr
    /\ Decode(last.t.resp.Body, FreshTarget).err = NoErr
    /\ last.out.val = ValueOf(Decode(last.t.resp.Body, FreshTarget).v)

\* C3 as amended: an accessor that returns a nil error got a response from
\* the transport; if the status is outside [200, 299] or the body is empty,
\* nothing was decoded and the value is the zero value; otherwise the value
\* is the result of a successful decode of the body.
C3_NilErrorAmended ==
  (IsAccessor /\ last.out.err = NoErr) =>
    /\ Sent /\ last.t.err = NoErr
    /\ IF ~Success(last.t.resp.StatusCode) \/ last.t.resp.Body = EmptyBody
       THEN last.out.val = ValueOf(FreshTarget)
       ELSE /\ Decode(last.t.resp.Body, FreshTarget).err = NoErr
            /\ last.out.val = ValueOf(Decode(last.t.resp.Body, FreshTarget).v)

\* a List that returns rows decoded from a 2xx body, and no error
C3_Witness ==
  /\ last.op = "Locations.List" /\ last.out.err = NoErr
  /\ Success(last.t.resp.StatusCode)
  /\ Len(last.out.val) = 2

\* C4: a 2xx response with an empty body and a typed record as target gives
\* the response and a nil error, and the target keeps the value it had.
C4_EmptyBodyNoError ==
  (last.op = "Do" /\ last.t.err = NoErr /\ Success(last.t.resp.StatusCode)
     /\ last.t.resp.Body = EmptyBody /\ last.v.kind \in {"Location", "List"}) =>
    /\ last.out.resp # Nil
    /\ last.out.resp.StatusCode = last.t.resp.StatusCode
    /\ last.out.err = NoErr
    /\ last.out.v = last.v

\* an empty 200 decoded into a record that held values before the call
C4_Witness ==
  /\ last.op = "Do" /\ last.t.err = NoErr /\ last.t.resp.StatusCode = 200
  /\ last.t.resp.Body = EmptyBody
  /\ last.v.kind = "Location" /\ last.v.val # ZeroLocation
  /\ last.out.err = NoErr

\* the decoder fails on the body of last for a reason other than io.EOF
DecodeFails(v) ==
  /\ Answered /\ Success(last.t.resp.StatusCode)
  /\ v.kind \in {"Location", "List"}
  /\ Decode(last.t.resp.Body, v).err \notin {NoErr, "EOF"}

\* C5: when the decode of a 2xx body fails for a reason other than
\* end-of-input, Do returns the decoder's error unchanged and the response,
\* and an accessor returns (no value, that response, that error).
C5_DecodeErrorReturned ==
  /\ (last.op = "Do" /\ DecodeFails(last.v)) =>
       /\ last.out.err = Decode(last.t.resp.Body, last.v).err
       /\ last.out.resp # Nil
       /\ last.out.resp.StatusCode = last.t.resp.StatusCode
  /\ (IsAccessor /\ DecodeFails(FreshTarget)) =>
       /\ last.out.err = Decode(last.t.resp.Body, FreshTarget).err
       /\ last.out.val = NoValue
       /\ last.out.resp # Nil
       /\ last.out.resp.StatusCode = last.t.resp.StatusCode

\* a List whose rows hold a timestamp that is not in the layout: the decoder
\* has filled a row already, the accessor returns none
C5_Witness ==
  /\ last.op = "Locations.List" /\ DecodeFails(FreshTarget)
  /\ last.out.err = TimestampErr
  /\ Decode(last.t.resp.Body, FreshTarget).v.val.Rows # <<>>
  /\ last.out.val = <<>>

\* C6: a call hands its request to the transport at most once; when the
\* transport fails, Do returns (nil, the transport's error) and decodes
\* nothing, and so does the accessor built on it.
C6_NoRetry ==
  /\ (last.op = "Do" \/ IsAccessor) => Len(last.out.sent) <= 1
  /\ (last.op = "Do" /\ last.t.err # NoErr) =>
       (last.out.resp = Nil /\ last.out.err = last.t.err /\ last.out.v = last.v)
  /\ (Sent /\ last.t.err # NoErr) =>
       (last.out.resp = Nil /\ last.out.err = last.t.err /\ last.out.val = NoValue)

\* the transport refused the connection of a call
C6_Witness ==
  /\ last.op \in {"Do", "Locations.Get"}
  /\ last.t.err = "dial tcp: connection refused"
  /\ Len(last.out.sent) = 1
  /\ last.out.err = "dial tcp: connection refused"

\* C7: when AddOptions or NewRequest fails inside an accessor, the accessor
\* returns (no value, nil response, the error) and nothing is handed to the
\* transport.
C7_NoNetworkAfterBuildFailure ==
  (IsAccessor /\ last.build.err # NoErr) =>
    /\ last.out.val = NoValue
    /\ last.out.resp = Nil
    /\ last.out.err = last.build.err
    /\ last.out.sent = <<>>

\* NewRequest fails inside List: the host of the base endpoint does not
\* survive String() followed by url.Parse
C7_Witness ==
  /\ last.op = "Locations.List"
  /\ last.build.err # NoErr
  /\ last.out.err = last.build.err
  /\ last.out.sent = <<>>

\* C8: NewClient returns (nil, an error) when the base URL is empty, the
\* token is empty or the base URL does not parse, and (a client, nil) in
\* every other case; never a client together with an error.
C8_NewClientResult ==
  last.op = "NewClient" =>
    LET bad == last.baseURL = <<>> \/ last.token = <<>> \/ ParseURL(last.baseURL).err # NoErr
    IN  /\ bad => (last.out.c = Nil /\ last.out.err # NoErr)
        /\ ~bad => (last.out.c # Nil /\ last.out.err = NoErr)
        /\ client = last.out.c

\* a base URL that parses, given with an empty token
C8_Witness ==
  /\ last.op = "NewClient"
  /\ last.token = <<>> /\ last.baseURL # <<>> /\ ParseURL(last.baseURL).err = NoErr
  /\ last.out.c = Nil /\ last.out.err = "a token must be provided"

\* C9: the path of the base endpoint of every client NewClient returned ends
\* with '/', in every state the client is in afterwards; a path that ended
\* with '/' already is kept as it is, any other path gets exactly one '/'.
C9_TrailingSeparator ==
  /\ client # Nil => HasSuffix(client.BaseURL.Path, <<"/">>)
  /\ (last.op = "NewClient" /\ last.out.err = NoErr) =>
       LET given == ParseURL(last.baseURL).u.Path
       IN  client.BaseURL.Path = IF given # <<>> /\ given[Len(given)] = "/" THEN given ELSE given \o <<"/">>

\* a client whose base URL ended with '/', after an accessor call
C9_Witness ==
  /\ client # Nil
  /\ client.BaseURL.Path = <<"/", "l", "/">>
  /\ last.op = "Locations.Get"

\* the URL u lies under the base endpoint b: same scheme, same host (an
\* empty port is dropped from the host of a request), path below b's path
UnderBase(b, u) ==
  /\ u.Scheme = b.Scheme
  /\ u.Host = RemoveEmptyPort(b.Host)
  /\ u.Opaque = <<>>
  /\ HasPrefix(u.Path, b.Path)

\* C10 as stated: for every path, the URL of the request NewRequest builds
\* lies under the base endpoint, and the path and the same path with one
\* more leading '/' give the same request.
C10_AlwaysUnderBase ==
  (last.op = "NewRequest" /\ last.out.err = NoErr) =>
    /\ UnderBase(client.BaseURL, last.out.req.URL)
    /\ NewRequest(client, last.method, <<"/">> \o last.urlStr, last.body) = last.out

\* a path segment that is "." or ".."
HasDotSegment(q) == \E i \in 1..Len(SplitSlash(q)) : SplitSlash(q)[i] \in {<<".">>, <<".", ".">>}

\* a base endpoint with a host and a path without dot segments
PlainBase(b) == b.Host # <<>> /\ ~HasDotSegment(b.Path)

\* a relative path reference that does not climb: no scheme, no leading
\* '/', no ".." segment
PlainRelative(ref) ==
  /\ ParseURL(ref).err = NoErr
  /\ ParseURL(ref).u.Scheme = <<>>
  /\ ~HasPrefix(ref, <<"/">>)
  /\ \A i \in 1..Len(SplitSlash(ParseURL(ref).u.Path)) : SplitSlash(ParseURL(ref).u.Path)[i] # <<".", ".">>

\* C10 as amended: for a base endpoint with a host and no dot segments in
\* its path, and a path that, one leading '/' removed, is a relative
\* reference without scheme, without leading '/' and without ".." segment,
\* the URL of the request lies under the base endpoint; and a path that does
\* not begin with '/' and the same path with a leading '/' give the same
\* result.
C10_RelativeUnderBase ==
  last.op = "NewRequest" =>
    /\ (last.out.err = NoErr /\ PlainBase(client.BaseURL) /\ PlainRelative(TrimPrefix(last.urlStr, <<"/">>))) =>
         UnderBase(client.BaseURL, last.out.req.URL)
    /\ ~HasPrefix(last.urlStr, <<"/">>) =>
         NewRequest(client, last.method, <<"/">> \o last.urlStr, last.body) = last.out

\* "/l" resolved below a base path of its own, not from the root of the host
C10_Witness ==
  /\ last.op = "NewRequest" /\ last.out.err = NoErr
  /\ last.urlStr = <<"/", "l">>
  /\ client.BaseURL.Path = <<"/", "l", "/">>
  /\ last.out.req.URL.Path = <<"/", "l", "/", "l">>

\* C11: every request NewRequest builds, for any method, path and body (a
\* nil body included), carries exactly the headers Accept = application/json,
\* Content-Type = application/json and Authorization = "Bearer " followed by
\* the token given to NewClient: the client NewClient returns holds "Bearer "
\* and the token it was given, no step changes the token a client holds, and
\* the request carries the token the client holds.
C11_Headers ==
  [][/\ (last'.op = "NewClient" /\ last'.out.err = NoErr) => client'.token = Bearer \o last'.token
     /\ client # Nil => (client' # Nil /\ client'.token = client.token)
     /\ (last'.op = "NewRequest" /\ last'.out.err = NoErr) =>
          last'.out.req.Header = [Accept |-> "application/json", ContentType |-> "application/json", Authorization |-> client'.token]]_vars

\* a request without a body, built by a client that was given the token s
C11_Witness ==
  /\ last.op = "NewRequest" /\ last.out.err = NoErr
  /\ last.body = NoBody
  /\ last.out.req.Body = Nil
  /\ last.out.req.Header.ContentType = "application/json"
  /\ last.out.req.Header.Authorization = <<"B", "e", "a", "r", "e", "r", " ", "s">>

\* the query string of the path s: what follows its first '?'
QueryOf(s) == CutAfter(s, "?")

IsOptions(opt) == opt.kind \in {"LocationListOptions", "HardwareListOptions"}

\* the fields of an options record that do not hold their zero value
NonZeroFields(opt) == {fld \in DOMAIN opt.f : ~IsZero(fld, opt.f[fld])}

\* the value of a field as text
FieldText(opt, fld) == IF fld \in IntFields THEN Itoa(opt.f[fld]) ELSE opt.f[fld]

\* the query q holds one pair per non-zero field of opt, the field's key with
\* the field's value, and nothing else
ExactlyNonZero(q, opt) ==
  /\ Len(ParseForm(q)) = Cardinality(NonZeroFields(opt))
  /\ {ParseForm(q)[i] : i \in 1..Len(ParseForm(q))} = {<<TagsOf(opt)[fld], FieldText(opt, fld)>> : fld \in NonZeroFields(opt)}

\* C12: for every options record, the query string AddOptions produces, and
\* the query the server receives for a List call, holds exactly one key per
\* non-zero field, the field's key name with the field's value, and no key
\* for a zero-valued field.
C12_QueryKeys ==
  /\ (last.op = "AddOptions" /\ IsOptions(last.opt) /\ last.out.err = NoErr) => ExactlyNonZero(QueryOf(last.out.s), last.opt)
  /\ (last.op \in {"Locations.List", "Hardware.List"} /\ IsOptions(last.opt) /\ Sent) =>
       ExactlyNonZero(last.build.req.URL.RawQuery, last.opt)

\* a List with three filters, one of them with a space and a '&' in it
C12_Witness ==
  /\ last.op = "Locations.List" /\ Sent
  /\ IsOptions(last.opt)
  /\ NonZeroFields(last.opt) = {"Limit", "Search", "Order"}
  /\ last.opt.f.Search = <<"l", " ", "&">>
  /\ last.build.req.URL.RawQuery = <<"l", "i", "m", "i", "t", "=", "1", "0", "&", "o", "r", "d", "e", "r", "=", "a", "s", "c", "&", "s", "e", "a", "r", "c", "h", "=", "l", "+", "%", "2", "6">>

\* the last call is AddOptions with an options record whose fields all hold
\* their zero value
ZeroOptionsCall == last.op = "AddOptions" /\ IsOptions(last.opt) /\ NonZeroFields(last.opt) = {}

C14_NilOptionsUnchanged ==
  (last.op = "AddOptions" /\ last.opt.kind \in {"nilptr", "nil"}) => last.out = [s |-> last.s, err |-> NoErr]

\* the part of C14 that holds: a nil pointer to an options record
C14_NilPointerUnchanged ==
  (last.op = "AddOptions" /\ last.opt.kind = "nilptr") => last.out = [s |-> last.s, err |-> NoErr]

\* ------------------------------------------------- properties of timestamps
IsUnmarshal == last.op = "UnmarshalJSON"

IsStamp(jv) == jv.t = "obj" /\ Len(jv.f) = 2 /\ jv.f[1][1] = "datetime" /\ jv.f[2][1] = "formatted" /\ jv.f[1][2].t = "str" /\ jv.f[2][2].t = "str"

DatetimeOf(jv) == jv.f[1][2].v

FormattedOf(jv) == jv.f[2][2].v

\* C15: decoding a wire value whose datetime is the empty string returns
\* no error and does not write the Timestamp, whatever formatted holds: a
\* Timestamp that was unset is left at the zero time; so it is inside the
\* decode of a Location.
C15_EmptyDatetime ==
  /\ (IsUnmarshal /\ IsStamp(last.jv) /\ DatetimeOf(last.jv) = <<>>) =>
        /\ last.out.err = NoErr
        /\ last.out.ts = last.ts
        /\ (last.ts = ZeroTime => last.out.ts = ZeroTime)
  /\ (last.op = "Decode" /\ IsStamp(last.jv) /\ DatetimeOf(last.jv) = <<>>) =>
        /\ last.out.err = NoErr
        /\ last.out.v.val = [ID |-> 2, Name |-> "Stamped", CreatedAt |-> last.ts]

C15_Witness ==
  /\ IsUnmarshal /\ IsStamp(last.jv) /\ DatetimeOf(last.jv) = <<>> /\ FormattedOf(last.jv) = GoodFormatted
  /\ last.ts = ZeroTime /\ last.out.err = NoErr /\ last.out.ts = ZeroTime

\* a string of the shape YYYY-MM-DD HH:MM:SS: nineteen characters, digits
\* but for the separators
LayoutShape(s) ==
  /\ Len(s) = 19
  /\ \A i \in 1..19 :
       IF i \in {5, 8} THEN s[i] = "-"
       ELSE IF i = 11 THEN s[i] = " "
       ELSE IF i \in {14, 17} THEN s[i] = ":"
       ELSE IsDigit(s[i])

\* the date-time a string of that shape names
FieldsOf(s) ==
  [year |-> Atoi(SubSeq(s, 1, 4)), month |-> Atoi(SubSeq(s, 6, 7)), day |-> Atoi(SubSeq(s, 9, 10)),
   hour |-> Atoi(SubSeq(s, 12, 13)), min |-> Atoi(SubSeq(s, 15, 16)), sec |-> Atoi(SubSeq(s, 18, 19)), nsec |-> 0]

\* a date of the calendar and a time of the 24-hour clock
IsDateTime(t) ==
  /\ t.month \in 1..12 /\ t.day \in 1..DaysIn(t.month, t.year)
  /\ t.hour \in 0..23 /\ t.min \in 0..59 /\ t.sec \in 0..59

\* the string is a date-time written in the layout
InLayout(s) == LayoutShape(s) /\ IsDateTime(FieldsOf(s))

\* C16: decoding a wire value whose datetime is a date-time in the layout
\* YYYY-MM-DD HH:MM:SS returns no error and stores exactly that year, month,
\* day, hour, minute and second (nothing of a second below it), over what
\* the Timestamp held; any other string as formatted gives the same result;
\* inside the decode of a Location the time lands in CreatedAt.
C16_LayoutDatetime ==
  /\ (IsUnmarshal /\ IsStamp(last.jv) /\ InLayout(DatetimeOf(last.jv))) =>
        /\ last.out.err = NoErr
        /\ last.out.ts = FieldsOf(DatetimeOf(last.jv))
        /\ \A f \in Formatteds : TimestampUnmarshalJSON(last.ts, StampOf(DatetimeOf(last.jv), f)) = last.out
  /\ (last.op = "Decode" /\ IsStamp(last.jv) /\ InLayout(DatetimeOf(last.jv))) =>
        /\ last.out.err = NoErr
        /\ last.out.v.val = [ID |-> 2, Name |-> "Stamped", CreatedAt |-> FieldsOf(DatetimeOf(last.jv))]

C16_Witness ==
  /\ IsUnmarshal /\ last.ts = PriorTime
  /\ last.jv = StampOf(GoodDatetime, BadDatetime)
  /\ last.out.err = NoErr
  /\ last.out.ts = [year |-> 2019, month |-> 5, day |-> 21, hour |-> 21, min |-> 37, sec |-> 40, nsec |-> 0]

\* the wire value is an object with a datetime that is neither empty nor a
\* date-time in the layout
Deviates == IsStamp(last.jv) /\ DatetimeOf(last.jv) # <<>> /\ ~InLayout(DatetimeOf(last.jv))

\* C17: decoding a wire value whose datetime is not empty and deviates from
\* the layout YYYY-MM-DD HH:MM:SS returns an error whose text quotes the
\* datetime string and leaves the Timestamp as it was; inside the decode of
\* a Location that error is the error of the decode.
C17_DeviationFails ==
  /\ (IsUnmarshal /\ Deviates) =>
        /\ last.out.err = TimestampErr
        /\ last.out.quoted = DatetimeOf(last.jv)
        /\ last.out.ts = last.ts
  /\ (last.op = "Decode" /\ Deviates) =>
        /\ last.out.err = TimestampErr
        /\ last.out.v.val.CreatedAt = last.ts

\* what holds of the datetimes time.Parse rejects: the error quotes the
\* string, the Timestamp is not written, and the decode of the Location
\* ends with that error, the members before created_at stored and those
\* after it not
C17_RejectedDatetime ==
  /\ (IsUnmarshal /\ Deviates /\ ParseTime(DatetimeOf(last.jv)).err # NoErr) =>
        /\ last.out.err = TimestampErr
        /\ last.out.quoted = DatetimeOf(last.jv)
        /\ last.out.ts = last.ts
  /\ (last.op = "Decode" /\ Deviates /\ ParseTime(DatetimeOf(last.jv)).err # NoErr) =>
        /\ last.out.err = TimestampErr
        /\ last.out.v.val = [ID |-> 2, Name |-> "Prior", CreatedAt |-> last.ts]

\* a datetime with a one-digit hour, or with a fraction of a second, is
\* decoded without an error
C17_AcceptedDeviation ==
  /\ IsUnmarshal /\ Deviates
  /\ last.out.err = NoErr
  /\ last.out.ts # last.ts

\* the JSON value is an object with a member k whose value is a string
HasString(jv, k) == jv.t = "obj" /\ \E i \in 1..Len(jv.f) : jv.f[i][1] = k /\ jv.f[i][2].t = "str"

\* the JSON value has a value of another type than string or null where
\* apiTimestamp wants an object or a string
WrongType(jv) ==
  \/ jv.t \notin {"obj", "null"}
  \/ jv.t = "obj" /\ \E i \in 1..Len(jv.f) : jv.f[i][1] \in {"datetime", "formatted"} /\ jv.f[i][2].t \notin {"str", "null"}

\* C18: decoding a timestamp from a JSON value that is not an object with
\* the two string members datetime and formatted returns an error.
C18_MalformedFails ==
  (IsUnmarshal /\ ~(HasString(last.jv, "datetime") /\ HasString(last.jv, "formatted"))) => last.out.err # NoErr

\* what holds of such values: those with a value of a wrong type give the
\* type error of encoding/json and leave the Timestamp as it was; null, and
\* an object that lacks datetime or has null for it, give no error and
\* leave the Timestamp as it was
C18_WrongTypeFails ==
  /\ (IsUnmarshal /\ WrongType(last.jv)) => (last.out.err = TypeErr /\ last.out.ts = last.ts)
  /\ (IsUnmarshal /\ ~WrongType(last.jv) /\ ~HasString(last.jv, "datetime")) => (last.out.err = NoErr /\ last.out.ts = last.ts)

\* ---------------------------------------------- properties of the accessors
HasMember(jv, k) == \E i \in 1..Len(jv.f) : jv.f[i][1] = k

Member(jv, k) == jv.f[CHOOSE i \in 1..Len(jv.f) : jv.f[i][1] = k][2]

\* a JSON object that names no member twice, and only members of keys
OneOfEach(jv, keys) ==
  /\ jv.t = "obj"
  /\ \A i \in 1..Len(jv.f) : jv.f[i][1] \in keys /\ \A j \in 1..Len(jv.f) : jv.f[i][1] = jv.f[j][1] => i = j

\* a location as the API writes it: a number for id, a string for name, a
\* timestamp whose datetime is empty or in the layout for created_at
WireLocation(jv) ==
  /\ OneOfEach(jv, {"id", "name", "created_at"})
  /\ HasMember(jv, "id") => Member(jv, "id").t = "num"
  /\ HasMember(jv, "name") => Member(jv, "name").t = "str"
  /\ HasMember(jv, "created_at") =>
        /\ IsStamp(Member(jv, "created_at"))
        /\ DatetimeOf(Member(jv, "created_at")) = <<>> \/ InLayout(DatetimeOf(Member(jv, "created_at")))

\* the time a timestamp in a record names
WireTime(jv) == IF ~HasMember(jv, "created_at") \/ DatetimeOf(Member(jv, "created_at")) = <<>> THEN ZeroTime ELSE FieldsOf(DatetimeOf(Member(jv, "created_at")))

\* the Location that record is
LocationOf(jv) ==
  [ID |-> IF HasMember(jv, "id") THEN Member(jv, "id").v ELSE 0,
   Name |-> IF HasMember(jv, "name") THEN Member(jv, "name").v ELSE "",
   CreatedAt |-> WireTime(jv)]

\* a hardware record as the API writes it, and the Hardware it is
WireHardware(jv) ==
  /\ OneOfEach(jv, {"id", "name", "created_at", "location"})
  /\ HasMember(jv, "id") => Member(jv, "id").t = "num"
  /\ HasMember(jv, "name") => Member(jv, "name").t = "str"
  /\ HasMember(jv, "created_at") =>
        /\ IsStamp(Member(jv, "created_at"))
        /\ DatetimeOf(Member(jv, "created_at")) = <<>> \/ InLayout(DatetimeOf(Member(jv, "created_at")))
  /\ HasMember(jv, "location") => WireLocation(Member(jv, "location"))

HardwareOf(jv) ==
  [ID |-> IF HasMember(jv, "id") THEN Member(jv, "id").v ELSE 0,
   Name |-> IF HasMember(jv, "name") THEN Member(jv, "name").v ELSE "",
   Location |-> IF HasMember(jv, "location") THEN LocationOf(Member(jv, "location")) ELSE Nil,
   CreatedAt |-> WireTime(jv)]

\* the envelope {total, rows} with a number for total and an array for rows
IsEnvelope(jv) ==
  /\ jv.t = "obj" /\ Len(jv.f) = 2
  /\ jv.f[1][1] = "total" /\ jv.f[1][2].t = "num"
  /\ jv.f[2][1] = "rows" /\ jv.f[2][2].t = "arr"

\* the call of last got a response with a status in [200, 299] and a body
\* that is a JSON text
GotJSON == Sent /\ Answered /\ Success(last.t.resp.StatusCode) /\ last.t.resp.Body.kind = "json"

WireRows == last.t.resp.Body.val.f[2][2].e

\* C19: for a 2xx response whose body is the envelope {total, rows}, a List
\* accessor returns the records of rows, as many and in the same order,
\* with a nil error, whatever number total is; for a 2xx response whose
\* body is one record, Get returns that record with a nil error.
C19_RowsReturned ==
  /\ (last.op = "Locations.List" /\ GotJSON /\ IsEnvelope(last.t.resp.Body.val) /\ \A i \in 1..Len(WireRows) : WireLocation(WireRows[i])) =>
        /\ last.out.err = NoErr
        /\ last.out.val = [i \in 1..Len(WireRows) |-> LocationOf(WireRows[i])]
  /\ (last.op = "Hardware.List" /\ GotJSON /\ IsEnvelope(last.t.resp.Body.val) /\ \A i \in 1..Len(WireRows) : WireHardware(WireRows[i])) =>
        /\ last.out.err = NoErr
        /\ last.out.val = [i \in 1..Len(WireRows) |-> HardwareOf(WireRows[i])]
  /\ (last.op = "Locations.Get" /\ GotJSON /\ WireLocation(last.t.resp.Body.val)) =>
        /\ last.out.err = NoErr
        /\ last.out.val = LocationOf(last.t.resp.Body.val)

\* a List call answered with two rows, the higher id first, and a total of 0
C19_Witness ==
  /\ last.op = "Locations.List" /\ GotJSON
  /\ last.t.resp.Body.val = Envelope(0, << StampedLocJSON(2, "Stamped", GoodDatetime), LocJSON(1, "A") >>)
  /\ last.out.err = NoErr /\ Len(last.out.val) = 2
  /\ last.out.val[1].ID = 2 /\ last.out.val[1].CreatedAt.year = 2019 /\ last.out.val[2].Name = "A"

\* ------------------------------------- properties of the concurrent callers
\* what the call would return had it run alone on the client, the
\* transport answering the same
Alone(call) ==
  IF call.op = "Locations.List" THEN LocationsList(client, call.arg, call.t)
  ELSE IF call.op = "Hardware.List" THEN HardwareList(client, call.arg, call.t)
  ELSE LocationsGet(client, call.arg, call.t)

\* the request the call would build had it run alone
RequestAlone(call) ==
  IF call.op = "Locations.Get" THEN GetRequest(client, call.arg)
  ELSE ListRequest(client, PathOf(call.op), call.arg)

SameAsAlone ==
  \A p \in Callers :
    /\ pc[p] = "Do" => last[p].req = RequestAlone(last[p]).req
    /\ pc[p] = "returned" => last[p].out = Alone(last[p])

ClientNotWritten == client # Nil => client' = client

\* C20: once NewClient has returned, no step of AddOptions, NewRequest, Do
\* or an accessor changes the base endpoint, the token or the transport
\* handle of the client; and however the steps of concurrent accessor calls
\* on the one client interleave, each call builds the request and returns
\* the result it would have built and returned running alone.
C20_ClientImmutable == [][ClientNotWritten]_vars /\ []SameAsAlone

\* caller 2 has run a whole Get while caller 1 is in the middle of a List
C20_Witness ==
  /\ client # Nil
  /\ pc[1] = "Do" /\ last[1].op = "Hardware.List" /\ last[1].req.URL.RawQuery # <<>>
  /\ pc[2] = "returned" /\ last[2].op = "Locations.Get" /\ last[2].out.err = NoErr /\ last[2].out.val.ID = 1

\* the target of the Do call of last is an io.Writer
IsWriter(v) == v.kind = "writer"

\* the call of last is a Do with a target that got a response with a status
\* in [200, 299]
ReadsBody == last.op = "Do" /\ last.t.err = NoErr /\ Success(last.t.resp.StatusCode) /\ last.v.kind # "nil"

\* C21: on a status in [200, 299] and a non-nil target, Do handles the
\* target in exactly one way.  A target that is an io.Writer gets the body
\* appended as it is, the error is nil whatever the body holds, and a record
\* the target holds besides is not decoded into.  Any other target is what
\* the JSON decoder makes of it, with the decoder's error (io.EOF excepted),
\* and has got no bytes.
C21_OneWay ==
  ReadsBody =>
    /\ last.out.resp # Nil /\ last.out.resp.StatusCode = last.t.resp.StatusCode
    /\ DOMAIN last.out.v = DOMAIN last.v
    /\ IF IsWriter(last.v)
       THEN /\ last.out.err = NoErr
            /\ last.out.v.buf = last.v.buf \o <<last.t.resp.Body>>
            /\ "val" \in DOMAIN last.v => last.out.v.val = last.v.val
       ELSE /\ "buf" \notin DOMAIN last.out.v
            /\ last.out.v = Decode(last.t.resp.Body, last.v).v
            /\ last.out.err = (IF Decode(last.t.resp.Body, last.v).err = "EOF" THEN NoErr ELSE Decode(last.t.resp.Body, last.v).err)

\* a 200 with a JSON record as body and, as target, an io.Writer that json
\* could decode into: the body is in the buffer and the record is untouched,
\* although a decode would have filled it
C21_Witness ==
  /\ ReadsBody /\ last.t.resp.StatusCode = 200
  /\ IsWriter(last.v) /\ "val" \in DOMAIN last.v
  /\ last.t.resp.Body = JSONBody(LocJSON(1, "Test"))
  /\ Decode(last.t.resp.Body, LocationTarget(last.v.val)).v.val # last.v.val
  /\ last.out.v.buf = <<last.t.resp.Body>>
  /\ last.out.v.val = last.v.val
  /\ last.out.err = NoErr

\* a 299 whose body is not JSON, copied into a writer that held bytes before
C21_GarbageCopied ==
  /\ ReadsBody /\ last.t.resp.StatusCode = 299
  /\ IsWriter(last.v) /\ last.v.buf # <<>>
  /\ last.t.resp.Body = GarbageBody
  /\ last.out.v.buf = last.v.buf \o <<GarbageBody>>
  /\ last.out.err = NoErr

\* the accessor of last got a response with a status outside [200, 299]
ErrorStatus == Sent /\ last.t.err = NoErr /\ ~Success(last.t.resp.StatusCode)

\* C22: when the server answers an accessor with a status outside
\* [200, 299], Get returns a record that is not nil and has the zero value
\* in every field, List returns no rows, and both return the response the
\* transport gave and a nil error; nothing of the body is in the value.
C22_ErrorStatusZeroValue ==
  ErrorStatus =>
    /\ last.out.err = NoErr
    /\ last.out.resp # Nil
    /\ last.out.resp.StatusCode = last.t.resp.StatusCode
    /\ last.out.resp.Body = last.t.resp.Body
    /\ IF last.op = "Locations.Get"
       THEN /\ last.out.val # Nil
            /\ last.out.val.ID = 0 /\ last.out.val.Name = "" /\ last.out.val.CreatedAt = ZeroTime
       ELSE last.out.val = <<>>

\* a 404 answered to Get with a body that holds a location: a decode of the
\* body would have given that location, and Get returns the zero record
C22_Witness ==
  /\ ErrorStatus /\ last.op = "Locations.Get"
  /\ last.t.resp.StatusCode = 404
  /\ last.t.resp.Body = JSONBody(LocJSON(1, "Test"))
  /\ Decode(last.t.resp.Body, FreshTarget).err = NoErr
  /\ Decode(last.t.resp.Body, FreshTarget).v.val.ID = 1
  /\ last.out.val # Nil /\ last.out.val.ID = 0
  /\ last.out.err = NoErr

\* a 404 answered to List with an error object that has rows: a decode
\* would have given a row, and List returns none
C22_ListNoRows ==
  /\ ErrorStatus /\ last.op \in {"Locations.List", "Hardware.List"}
  /\ last.t.resp.StatusCode = 404
  /\ last.t.resp.Body = JSONBody(NotFoundJSON)
  /\ Len(Decode(last.t.resp.Body, FreshTarget).v.val.Rows) = 1
  /\ last.out.val = <<>>
  /\ last.out.err = NoErr

====
